---- MODULE Spec2Model ----
(***************************************************************************)
(* A model of the Sudoku reasoning core: the game board and its edits,     *)
(* the validator, the auto-note engine, the solutions tree, the logical    *)
(* solver and the carving phase of the random generator.                   *)
(*                                                                         *)
(* Option<T> is modelled as a sequence of length at most one: <<>> is      *)
(* None and <<x>> is Some(x).  A Vec is a sequence.  A CellIndex is the    *)
(* pair <<column, row>>, both 0-based, as in the source.                   *)
(***************************************************************************)
EXTENDS Integers, Sequences, FiniteSets, TLC

VARIABLES
    cells,      \* GameBoard.cells of the board under edit
    start,      \* that board as it was constructed
    prev,       \* that board before the last operation
    op,         \* the last operation applied to it
    nops,       \* the number of operations applied so far
    puzzle,     \* the board handed to SolutionsTree::solve
    deadline,   \* the clock reads that find that call's deadline ahead
    outcome,    \* what the call returned, and the counter and clock it left
    given,      \* the board handed to Solver::solve
    sboard,     \* solve's own board
    points,     \* solve's points
    moves,      \* solve's moves
    tech,       \* the position of solve's loop in self.techniques, from 1
    spc,        \* where solve is: "start", "loop", "exit", "Ok", "Err", "panicked"
    num_starting_cells, \* RandomLoader.num_starting_cells
    gboard,             \* into_game's game_board
    available_cells,    \* into_game's pool of cells to remove
    buffer,             \* the cells whose removal was refused since the last accepted one
    cells_removed,      \* into_game's count of removals
    gpc,                \* where into_game is: "filling", "checking", "filled",
                        \* "carving", "returned", or the name of what it
                        \* returned before the cells are removed
    move_stack,         \* into_game's stack of the moves made, the last on top
    missed,             \* the calls of can_be_completed that met their deadline
    swaps_left,         \* the turns the loop over 0..num_swaps still has to make
    origin,     \* the board as_byte_string was called on
    bytes,      \* ByteStringLoader.0
    loaded,     \* what ByteStringLoader::into_game returned
    cpc,        \* where the loader is: "board", "start", "loaded", "emitted", "reloaded"
    qboard,     \* the board a read-only call is made on
    qlimit,     \* the clock reads that find that call's deadline ahead
    answer      \* the last call made on qboard and what it returned

editVars == <<cells, start, prev, op, nops>>

treeVars == <<puzzle, deadline, outcome>>

solveVars == <<given, sboard, points, moves, tech, spc>>

carveVars ==
    <<num_starting_cells, gboard, available_cells, buffer, cells_removed, gpc,
      move_stack, missed, swaps_left>>

codecVars == <<origin, bytes, loaded, cpc>>

queryVars == <<qboard, qlimit, answer>>

vars == <<editVars, treeVars, solveVars, carveVars, codecVars, queryVars>>

\* -------------------------------------------------------------------------
\* game_board.rs: the data model
\* -------------------------------------------------------------------------

SIZE == 9

Idx == 0..(SIZE - 1)

Digits == 1..SIZE

DigitSeq == [d \in 1..SIZE |-> d]

None == <<>>

Some(x) == <<x>>

\* status: [Option<NoteStatus>; 9], indexed here by the digit (val - 1 there)
NoStatus == [d \in 1..SIZE |-> "None"]

Empty == [kind |-> "Empty", val |-> 0, status |-> NoStatus]

Preset(v) == [kind |-> "Preset", val |-> v, status |-> NoStatus]

Value(v) == [kind |-> "Value", val |-> v, status |-> NoStatus]

Notes(st) == [kind |-> "Notes", val |-> 0, status |-> st]

as_value(cell) ==
    IF cell.kind = "Preset" \/ cell.kind = "Value" THEN Some(cell.val) ELSE None

maybe_values(cell) ==
    IF cell.kind = "Notes"
    THEN LET IsMaybe(d) == cell.status[d] = "Maybe"
         IN  Some(SelectSeq(DigitSeq, IsMaybe))
    ELSE None

denied_values(cell) ==
    IF cell.kind = "Notes"
    THEN LET IsDeny(d) == cell.status[d] = "Deny"
         IN  Some(SelectSeq(DigitSeq, IsDeny))
    ELSE None

is_or_maybe(cell, val) ==
    CASE cell.kind = "Preset" -> cell.val = val
      [] cell.kind = "Value"  -> cell.val = val
      [] cell.kind = "Notes"  -> cell.status[val] = "Maybe"
      [] OTHER                -> FALSE

\* Option<Vec<u8>>::into_iter().flatten().collect()
Flatten(opt) == IF opt = None THEN <<>> ELSE opt[1]

Contains(seq, x) == \E k \in 1..Len(seq) : seq[k] = x

\* GameBoard::new(): cells[row][column]
NewBoard == [r \in Idx |-> [c \in Idx |-> Empty]]

cell_value(b, ind) == b[ind[2]][ind[1]]

AllCells == {<<c, r>> : c \in Idx, r \in Idx}

SetCell(b, ind, cell) == [b EXCEPT ![ind[2]][ind[1]] = cell]

\* every cell named by a clue becomes Preset, the last clue of a cell winning
with_presets(b, presets) ==
    [r \in Idx |-> [c \in Idx |->
        LET hits == {k \in 1..Len(presets) : presets[k][1] = <<c, r>>}
        IN  IF hits = {} THEN b[r][c]
            ELSE Preset(presets[CHOOSE k \in hits : \A other \in hits : k >= other][2])]]

\* -------------------------------------------------------------------------
\* Region views, as the sequence of cell indices each one enumerates
\* -------------------------------------------------------------------------

RowIndices(row_n) == [k \in 1..SIZE |-> <<k - 1, row_n>>]

ColumnIndices(col_n) == [k \in 1..SIZE |-> <<col_n, k - 1>>]

\* house(x, y): start_row = x * 3, start_column = y * 3; rows outer, columns inner
HouseIndices(x, y) ==
    [k \in 1..SIZE |-> <<y * 3 + ((k - 1) % 3), x * 3 + ((k - 1) \div 3)>>]

\* AffectedComponents(Mut): the row, column and house seen by a cell
AffectedRow(ind) == RowIndices(ind[2])

AffectedColumn(ind) == ColumnIndices(ind[1])

\* the house looked up with the column and the row exchanged
AffectedHouseSwapped(ind) == HouseIndices(ind[1] \div 3, ind[2] \div 3)

AffectedHouse(ind) == HouseIndices(ind[2] \div 3, ind[1] \div 3)

\* the rows, the columns, and the rows once more
ComponentsNoHouses ==
    [k \in 1..(3 * SIZE) |->
        IF k <= SIZE THEN RowIndices(k - 1)
        ELSE IF k <= 2 * SIZE THEN ColumnIndices(k - SIZE - 1)
        ELSE RowIndices(k - 2 * SIZE - 1)]

\* sudoku_components: rows, then columns, then houses (house(col, row), row outer)
Components ==
    [k \in 1..(3 * SIZE) |->
        IF k <= SIZE THEN RowIndices(k - 1)
        ELSE IF k <= 2 * SIZE THEN ColumnIndices(k - SIZE - 1)
        ELSE HouseIndices((k - 2 * SIZE - 1) % 3, (k - 2 * SIZE - 1) \div 3)]

\* -------------------------------------------------------------------------
\* validity.rs: SudokuCorrectness
\* -------------------------------------------------------------------------

\* indices_and_values: the <<index, value>> of each filled cell of a view
indices_and_values(b, inds) ==
    LET Filled(ind) == as_value(cell_value(b, ind)) # None
        filled == SelectSeq(inds, Filled)
    IN  [k \in 1..Len(filled) |-> <<filled[k], cell_value(b, filled[k]).val>>]

\* found_array entries: Ok(None), Ok(Some(index)), Err(())
RECURSIVE invalid_scan(_, _, _, _)
invalid_scan(ivs, k, found, invalid) ==
    IF k > Len(ivs) THEN invalid
    ELSE LET index == ivs[k][1]
             val   == ivs[k][2]
             f     == found[val]
         IN  IF f = <<"Ok">>
             THEN invalid_scan(ivs, k + 1, [found EXCEPT ![val] = <<"Ok", index>>], invalid)
             ELSE IF f[1] = "Ok"
             THEN invalid_scan(ivs, k + 1, [found EXCEPT ![val] = <<"Err">>],
                               invalid \o <<f[2], index>>)
             ELSE invalid_scan(ivs, k + 1, found, Append(invalid, index))

comp_invalid_cells(b, inds) ==
    invalid_scan(indices_and_values(b, inds), 1, [d \in 1..SIZE |-> <<"Ok">>], <<>>)

comp_is_valid(b, inds) == comp_invalid_cells(b, inds) = <<>>

comp_is_complete(b, inds) ==
    LET ivs == indices_and_values(b, inds)
    IN  \A d \in 1..SIZE : Cardinality({k \in 1..Len(ivs) : ivs[k][2] = d}) = 1

\* impl SudokuCorrectness for GameBoard
is_valid(b) == \A k \in 1..(3 * SIZE) : comp_is_valid(b, Components[k])

is_complete(b) == \A k \in 1..(3 * SIZE) : comp_is_complete(b, Components[k])

is_victory(b) == is_valid(b) /\ is_complete(b)

\* GameBoard::invalid_cells: the HashSet of the components' invalid cells; the
\* Vec made of it holds each of them once, in no fixed order
invalid_cells(b) ==
    UNION {{comp_invalid_cells(b, Components[k])[n] :
                n \in 1..Len(comp_invalid_cells(b, Components[k]))} : k \in 1..(3 * SIZE)}

\* GameBoard::house, as House::indices_and_cells lists it
house(b, x, y) ==
    IF x \in 0..2 /\ y \in 0..2
    THEN Some([k \in 1..SIZE |->
                <<HouseIndices(x, y)[k], cell_value(b, HouseIndices(x, y)[k])>>])
    ELSE None

\* GameBoard::house_mut, as HouseMut::indices_and_cells lists it
house_mut(b, x, y) ==
    IF x \in 0..2 /\ y \in 0..2
    THEN Some([k \in 1..SIZE |->
                <<HouseIndices(x, y)[k], cell_value(b, HouseIndices(x, y)[k])>>])
    ELSE None

\* -------------------------------------------------------------------------
\* game_board.rs: edits
\* -------------------------------------------------------------------------

\* status[(val - 1) as usize] = None, on a Notes cell only
ClearFlag(cell, val) ==
    IF cell.kind = "Notes" THEN Notes([cell.status EXCEPT ![val] = "None"]) ELSE cell

\* one of the three loops of set(.., Value, ..) over a view's cells
RECURSIVE ClearView(_, _, _, _)
ClearView(b, inds, k, val) ==
    IF k > Len(inds) THEN b
    ELSE ClearView(SetCell(b, inds[k], ClearFlag(cell_value(b, inds[k]), val)),
                   inds, k + 1, val)

\* the arms of set with the flag written whatever it was
ToggleNoteOn(cell, val, flag) ==
    CASE cell.kind = "Preset" -> cell
      [] cell.kind = "Value"  -> cell
      [] cell.kind = "Notes"  -> Notes([cell.status EXCEPT ![val] = flag])
      [] OTHER -> Notes([NoStatus EXCEPT ![val] = flag])

\* the arms of set for NoteMode::Maybe (flag = "Maybe") and NoteMode::Deny
ToggleNote(cell, val, flag) ==
    CASE cell.kind = "Preset" -> cell
      [] cell.kind = "Value"  -> cell
      [] cell.kind = "Notes"  ->
            IF cell.status[val] = flag
            THEN Notes([cell.status EXCEPT ![val] = "None"])
            ELSE Notes([cell.status EXCEPT ![val] = flag])
      [] OTHER -> Notes([NoStatus EXCEPT ![val] = flag])

set(b, ind, mode, val) ==
    LET cell == cell_value(b, ind)
    IN  IF cell.kind = "Preset" THEN b
        ELSE CASE mode = "Value" ->
                    ClearView(
                        ClearView(
                            ClearView(SetCell(b, ind, Value(val)),
                                      AffectedRow(ind), 1, val),
                            AffectedColumn(ind), 1, val),
                        AffectedHouse(ind), 1, val)
               [] mode = "Maybe" -> SetCell(b, ind, ToggleNote(cell, val, "Maybe"))
               [] OTHER          -> SetCell(b, ind, ToggleNote(cell, val, "Deny"))

\* reset without the Preset arm
resetAnyCell(b, ind) == SetCell(b, ind, Empty)

reset(b, ind) ==
    IF cell_value(b, ind).kind = "Preset" THEN b ELSE SetCell(b, ind, Empty)

\* the cell marked afresh, Maybe for the digits of vals and nothing else
SetMaybesAfresh(b, ind, vals) ==
    IF vals = <<>> THEN b
    ELSE SetCell(b, ind, Notes([d \in Digits |->
                                   IF Contains(vals, d) THEN "Maybe" ELSE "None"]))

\* the loop `for value in valid` of auto_note, one set(.., Maybe, value) each
RECURSIVE SetMaybes(_, _, _)
SetMaybes(b, ind, vals) ==
    IF vals = <<>> THEN b
    ELSE SetMaybes(set(b, ind, "Maybe", vals[1]), ind, Tail(vals))

\* AutoNoteDigits without the retain on the denied values
AutoNoteDigitsOverDeny(b, cell_index) ==
    LET cell   == cell_value(b, cell_index)
        maybes == Flatten(maybe_values(cell))
        ValidAt(val) ==
            LET trial == SetCell(b, cell_index, Value(val))
            IN  /\ comp_is_valid(trial, AffectedHouse(cell_index))
                /\ comp_is_valid(trial, AffectedRow(cell_index))
                /\ comp_is_valid(trial, AffectedColumn(cell_index))
        Retained(val) == ~Contains(maybes, val)
    IN  SelectSeq(SelectSeq(DigitSeq, ValidAt), Retained)

\* the digits auto_note adds to one cell: valid in house, row and column,
\* retained when neither denied nor already maybe
AutoNoteDigits(b, cell_index) ==
    LET cell   == cell_value(b, cell_index)
        denies == Flatten(denied_values(cell))
        maybes == Flatten(maybe_values(cell))
        ValidAt(val) ==
            LET trial == SetCell(b, cell_index, Value(val))
            IN  /\ comp_is_valid(trial, AffectedHouse(cell_index))
                /\ comp_is_valid(trial, AffectedRow(cell_index))
                /\ comp_is_valid(trial, AffectedColumn(cell_index))
        Retained(val) == ~Contains(denies, val) /\ ~Contains(maybes, val)
    IN  SelectSeq(SelectSeq(DigitSeq, ValidAt), Retained)

\* the inner loop of auto_note, over the columns of one row; returned is set by
\* the early return on an invalid board
RECURSIVE auto_note_columns(_, _, _)
auto_note_columns(b, row, column) ==
    IF column >= SIZE THEN [board |-> b, returned |-> FALSE]
    ELSE IF ~is_valid(b) THEN [board |-> b, returned |-> TRUE]
    ELSE LET cell_index == <<column, row>>
         IN  IF as_value(cell_value(b, cell_index)) = None
             THEN auto_note_columns(
                      SetMaybes(b, cell_index, AutoNoteDigits(b, cell_index)),
                      row, column + 1)
             ELSE auto_note_columns(b, row, column + 1)

\* the outer loop of auto_note, over the rows
RECURSIVE auto_note_rows(_, _)
auto_note_rows(b, row) ==
    IF row >= SIZE THEN b
    ELSE LET done == auto_note_columns(b, row, 0)
         IN  IF done.returned THEN done.board
             ELSE auto_note_rows(done.board, row + 1)

auto_note(b) == auto_note_rows(b, 0)

clear_notes(b) ==
    [r \in Idx |-> [c \in Idx |->
        IF b[r][c].kind = "Notes" THEN Empty ELSE b[r][c]]]

\* iter_unset: the Notes and Empty cells in row-major order
AllIndices == [n \in 1..(SIZE * SIZE) |-> <<(n - 1) % SIZE, (n - 1) \div SIZE>>]

iter_unset(b) ==
    LET Unset(ind) == cell_value(b, ind).kind \in {"Notes", "Empty"}
    IN  SelectSeq(AllIndices, Unset)

\* -------------------------------------------------------------------------
\* validity.rs: the solutions tree
\* -------------------------------------------------------------------------

MAX_SOLUTION_SIZE == 128

\* The monotonic clock read by instant.elapsed() >= SOLVER_TIMEOUT_TIME.
\* left is the number of reads that still find the deadline ahead (-1: the
\* deadline is not reached during the run); once a read finds it reached,
\* every later read does, and hit records that one did.
Expired(clock) == clock.left = 0

Observe(clock) ==
    IF clock.left = 0 THEN [clock EXCEPT !.hit = TRUE]
    ELSE IF clock.left > 0 THEN [clock EXCEPT !.left = @ - 1]
    ELSE clock

StartClock(left) == [left |-> left, hit |-> FALSE]

\* the scan of solve_helper for the first cell without a value:
\* index = (j, i) with j the outer loop, so column 0 from row 0 to 8 first
ScanOrder == [n \in 1..(SIZE * SIZE) |-> <<(n - 1) \div SIZE, (n - 1) % SIZE>>]

FirstUnfilled(board) ==
    LET Unfilled(ind) == as_value(cell_value(board, ind)) = None
        found == SelectSeq(ScanOrder, Unfilled)
    IN  IF found = <<>> THEN None ELSE Some(found[1])

Leaf(board) == [board |-> board, node_type |-> "Leaf", children |-> <<>>]

\* children: the HashMap<u8, Node>, as the <<val, node>> pairs inserted
Branch(board, children) ==
    [board |-> board, node_type |-> "Branch", children |-> children]

\* line 168: the test a board without an unfilled cell passes to be a leaf
LeafAcceptedUnchecked(board) == TRUE

LeafAccepted(board) == is_valid(board) /\ is_complete(board)

\* solve_helper is recursive; its activations are kept on an explicit stack.
\* A frame is an activation inside its loop over val: the board it was called
\* on, the cell it fills, the val in hand and the map built so far.  pc is
\* "call" on entering solve_helper(arg), "loop" before the body of
\* `for val in 1..=9`, "return" when an activation (or the validity test of
\* the loop body) has produced ret, and "done" when the outermost activation
\* has returned.
HelperStart(board, counter, clock) ==
    [pc |-> "call", arg |-> board, stack |-> <<>>, ret |-> None,
     counter |-> counter, clock |-> clock]

\* lines 119-133 and the arm for no unfilled cell, lines 167-174
HelperCall(m) ==
    IF m.counter >= MAX_SOLUTION_SIZE
    THEN [m EXCEPT !.pc = "return", !.ret = None]
    ELSE IF Expired(m.clock)
    THEN [m EXCEPT !.pc = "return", !.ret = None, !.clock = Observe(m.clock)]
    ELSE LET cell == FirstUnfilled(m.arg)
         IN  IF cell # None
             THEN [m EXCEPT !.pc = "loop", !.clock = Observe(m.clock),
                            !.stack = Append(m.stack,
                                [board |-> m.arg, cell_index |-> cell[1],
                                 val |-> 1, map |-> <<>>])]
             ELSE IF LeafAccepted(m.arg)
                  THEN [m EXCEPT !.pc = "return", !.clock = Observe(m.clock),
                                 !.ret = Some(Leaf(m.arg)),
                                 !.counter = m.counter + 1]
                  ELSE [m EXCEPT !.pc = "return", !.clock = Observe(m.clock),
                                 !.ret = None]

\* lines 144-147: clone, place val, recurse when the result is valid
HelperLoop(m) ==
    LET f    == m.stack[Len(m.stack)]
        next == SetCell(f.board, f.cell_index, Value(f.val))
    IN  IF is_valid(next)
        THEN [m EXCEPT !.pc = "call", !.arg = next]
        ELSE [m EXCEPT !.pc = "return", !.ret = None]

\* lines 156-165: the activation ends, with a Branch unless its map is empty
HelperLeave(m, map) ==
    LET f == m.stack[Len(m.stack)]
    IN  IF map = <<>>
        THEN [m EXCEPT !.pc = "return", !.ret = None,
                       !.stack = SubSeq(m.stack, 1, Len(m.stack) - 1)]
        ELSE [m EXCEPT !.pc = "return", !.ret = Some(Branch(f.board, map)),
                       !.counter = m.counter + 1,
                       !.stack = SubSeq(m.stack, 1, Len(m.stack) - 1)]

\* lines 147-154: insert the child, then break, or go on with the next val
HelperReturn(m) ==
    IF m.stack = <<>> THEN [m EXCEPT !.pc = "done"]
    ELSE LET f    == m.stack[Len(m.stack)]
             map1 == IF m.ret # None THEN Append(f.map, <<f.val, m.ret[1]>>)
                     ELSE f.map
         IN  IF m.counter >= MAX_SOLUTION_SIZE THEN HelperLeave(m, map1)
             ELSE IF Expired(m.clock)
             THEN HelperLeave([m EXCEPT !.clock = Observe(m.clock)], map1)
             ELSE IF f.val = SIZE
             THEN HelperLeave([m EXCEPT !.clock = Observe(m.clock)], map1)
             ELSE [m EXCEPT !.pc = "loop", !.clock = Observe(m.clock),
                            !.stack[Len(m.stack)] =
                                [f EXCEPT !.val = f.val + 1, !.map = map1]]

HelperStep(m) ==
    CASE m.pc = "call"   -> HelperCall(m)
      [] m.pc = "loop"   -> HelperLoop(m)
      [] m.pc = "return" -> HelperReturn(m)
      [] OTHER           -> m

\* 2^StepChunk steps are taken per level of Run; the chunking has no effect on
\* the result, RunToEnd goes on until the outermost activation has returned
StepChunk == 8

RECURSIVE Run(_, _)
Run(m, n) ==
    IF m.pc = "done" THEN m
    ELSE IF n = 0 THEN HelperStep(m)
    ELSE Run(Run(m, n - 1), n - 1)

RECURSIVE RunToEnd(_)
RunToEnd(m) == IF m.pc = "done" THEN m ELSE RunToEnd(Run(m, StepChunk))

solve_helper(board, counter, clock) ==
    LET m == RunToEnd(HelperStart(board, counter, clock))
    IN  [node |-> m.ret, counter |-> m.counter, clock |-> m.clock]

\* Node::solve: a fresh counter is the caller's, the clock starts now
NodeSolve(board, counter, clock) == solve_helper(board, counter, clock)

RECURSIVE leaves(_)
leaves(node) ==
    IF node.node_type = "Leaf" THEN 1
    ELSE LET RECURSIVE Sum(_)
             Sum(k) == IF k = 0 THEN 0 ELSE Sum(k - 1) + leaves(node.children[k][2])
         IN  Sum(Len(node.children))

\* the child under key i of the map, if any
ChildAt(children, i) ==
    LET At(pair) == pair[1] = i
        hit == SelectSeq(children, At)
    IN  IF hit = <<>> THEN None ELSE Some(hit[1][2])

RECURSIVE first_solution(_)
first_solution(node) ==
    IF node.node_type = "Leaf" THEN node.board
    ELSE LET Present(i) == ChildAt(node.children, i) # None
             keys == SelectSeq(DigitSeq, Present)
         IN  first_solution(ChildAt(node.children, keys[1])[1])

\* SolutionsTree::solve, with the clock's state at the end of the run
SolutionsTreeSolve(board, clock) ==
    LET maybe_ret == NodeSolve(board, 0, clock)
    IN  [tree |-> IF maybe_ret.counter >= MAX_SOLUTION_SIZE THEN None
                  ELSE maybe_ret.node,
         counter |-> maybe_ret.counter,
         clock |-> maybe_ret.clock]

\* validity.rs lines 220-232: a Notes cell without Maybe, or an Empty cell
HasBareCell(b) ==
    \E k \in 1..(SIZE * SIZE) :
        LET cell == cell_value(b, AllIndices[k])
        IN  \/ cell.kind = "Notes" /\ Flatten(maybe_values(cell)) = <<>>
            \/ cell.kind = "Empty"

\* the search is not looked at
CompletedUnsearched(ret) == TRUE

\* validity.rs lines 235-239
Completed(ret) == ret.node # None /\ ret.counter > 0

\* can_be_completed: the answer, and the clock as the call leaves it
can_be_completed(board, clock) ==
    IF ~is_valid(board) THEN [result |-> FALSE, clock |-> clock]
    ELSE LET noted == auto_note(clear_notes(board))
         IN  IF HasBareCell(noted) THEN [result |-> FALSE, clock |-> clock]
             ELSE LET ret == NodeSolve(noted, 0, clock)
                  IN  [result |-> Completed(ret), clock |-> ret.clock]

num_solutions(tree) == leaves(tree)

solution(tree) == first_solution(tree)

\* -------------------------------------------------------------------------
\* advanced_solver/techniques: apply_to of the three techniques
\* -------------------------------------------------------------------------

\* Result<GameBoard, ()>, and the panic of an unwrap on None
OkResult(b) == [res |-> "Ok", board |-> b]

ErrResult == [res |-> "Err", board |-> NewBoard]

PanicResult == [res |-> "Panic", board |-> NewBoard]

\* a first maybe is enough
HasFirstMaybe(maybe) == Len(maybe) >= 1

\* naked_single.rs line 21: the slice pattern &[val]
IsOneMaybe(maybe) == Len(maybe) = 1

NakedSingle_apply_to(game_board) ==
    LET Single(cell_index) ==
            LET cell == cell_value(game_board, cell_index)
            IN  cell.kind = "Notes" /\ IsOneMaybe(maybe_values(cell)[1])
        singles == SelectSeq(iter_unset(game_board), Single)
    IN  IF singles = <<>> THEN ErrResult
        ELSE OkResult(set(game_board, singles[1], "Value",
                          maybe_values(cell_value(game_board, singles[1]))[1][1]))

\* hidden_single.rs: the sum over a view of is_or_maybe(maybe)
CountIsOrMaybe(b, inds, val) ==
    Cardinality({k \in 1..Len(inds) : is_or_maybe(cell_value(b, inds[k]), val)})

\* the maybes of a cell that no other cell of its row, column or house has
HiddenDigits(b, cell_index, maybes) ==
    LET Alone(maybe) ==
            \/ CountIsOrMaybe(b, AffectedRow(cell_index), maybe) = 1
            \/ CountIsOrMaybe(b, AffectedColumn(cell_index), maybe) = 1
            \/ CountIsOrMaybe(b, AffectedHouse(cell_index), maybe) = 1
    IN  SelectSeq(maybes, Alone)

\* the loop of HiddenSingle::apply_to over iter_unset, from its k-th cell;
\* maybe_values().unwrap() panics on a cell that is not Notes
RECURSIVE HiddenSingleFrom(_, _, _)
HiddenSingleFrom(game_board, unset, k) ==
    IF k > Len(unset) THEN ErrResult
    ELSE LET cell == cell_value(game_board, unset[k])
         IN  IF maybe_values(cell) = None THEN PanicResult
             ELSE LET hidden == HiddenDigits(game_board, unset[k], maybe_values(cell)[1])
                  IN  IF hidden # <<>>
                      THEN OkResult(set(game_board, unset[k], "Value", hidden[1]))
                      ELSE HiddenSingleFrom(game_board, unset, k + 1)

HiddenSingle_apply_to(game_board) ==
    HiddenSingleFrom(game_board, iter_unset(game_board), 1)

\* NakedPair::find_pair: the cells with two maybes are grouped by the two
\* values; the HashMap is walked in no fixed order and the first group of
\* exactly two cells is returned, so any such group may be: the set of the
\* pairs <<index1, index2>> that a call can return (empty: None)
find_pair(b, inds) ==
    LET TwoMaybes(ind) ==
            LET maybes == maybe_values(cell_value(b, ind))
            IN  maybes # None /\ Len(maybes[1]) = 2
        Key(ind) == maybe_values(cell_value(b, ind))[1]
        Entry(ind) ==
            LET Same(other) == TwoMaybes(other) /\ Key(other) = Key(ind)
            IN  SelectSeq(inds, Same)
    IN  {Entry(inds[k]) : k \in {n \in 1..Len(inds) :
                                    TwoMaybes(inds[n]) /\ Len(Entry(inds[n])) = 2}}

\* two set(index, Maybe, ..) calls on each cell of hits
RECURSIVE MaybeBoth(_, _, _)
MaybeBoth(next_board, hits, values) ==
    IF hits = <<>> THEN next_board
    ELSE MaybeBoth(set(set(next_board, hits[1], "Maybe", values[1]),
                       hits[1], "Maybe", values[2]),
                   Tail(hits), values)

\* the two set(index, Deny, ..) calls of enforce, on each cell of hits
RECURSIVE DenyBoth(_, _, _)
DenyBoth(next_board, hits, values) ==
    IF hits = <<>> THEN next_board
    ELSE DenyBoth(set(set(next_board, hits[1], "Deny", values[1]),
                      hits[1], "Deny", values[2]),
                  Tail(hits), values)

\* NakedPair::enforce on the view with indices inds
enforce(pair, b, inds) ==
    LET values == maybe_values(cell_value(b, pair[1]))[1]
        Hit(index) ==
            LET maybes == maybe_values(cell_value(b, index))
            IN  /\ index # pair[1] /\ index # pair[2]
                /\ maybes # None
                /\ (Contains(maybes[1], values[1]) \/ Contains(maybes[1], values[2]))
        hits == SelectSeq(inds, Hit)
    IN  IF hits = <<>> THEN None ELSE Some(DenyBoth(b, hits, values))

\* enforce_row_pair, enforce_column_pair, enforce_house_pair: the view is
\* looked up again from pair.0; k is the view's place in rows, columns, houses
EnforceView(k, pair) ==
    IF k <= SIZE THEN AffectedRow(pair[1])
    ELSE IF k <= 2 * SIZE THEN AffectedColumn(pair[1])
    ELSE AffectedHouse(pair[1])

\* the three loops of NakedPair::apply_to from the k-th view on: the set of
\* the results the call can have
RECURSIVE NakedPairFrom(_, _)
NakedPairFrom(game_board, k) ==
    IF k > 3 * SIZE THEN {ErrResult}
    ELSE LET pairs == find_pair(game_board, Components[k])
         IN  IF pairs = {} THEN NakedPairFrom(game_board, k + 1)
             ELSE UNION {LET ret == enforce(pair, game_board, EnforceView(k, pair))
                         IN  IF ret # None THEN {OkResult(ret[1])}
                             ELSE NakedPairFrom(game_board, k + 1) : pair \in pairs}

NakedPair_apply_to(game_board) == NakedPairFrom(game_board, 1)

\* -------------------------------------------------------------------------
\* advanced_solver/solver.rs
\* -------------------------------------------------------------------------

technique_points(technique) ==
    CASE technique = "NakedSingle"  -> 5
      [] technique = "HiddenSingle" -> 10
      [] technique = "NakedPair"    -> 50

technique_names(technique) ==
    CASE technique = "NakedSingle"  -> <<"nkds", "Naked Single">>
      [] technique = "HiddenSingle" -> <<"hdns", "Hidden Single">>
      [] technique = "NakedPair"    -> <<"nkpr", "Naked Pair">>

\* the techniques in the order opposite to the one given
reversed(seq) == [k \in 1..Len(seq) |-> seq[Len(seq) + 1 - k]]

\* sort_by_key(points), stable: each technique goes after those placed before
\* it that have no more points
RECURSIVE sort_by_key(_)
sort_by_key(seq) ==
    IF seq = <<>> THEN <<>>
    ELSE LET last   == seq[Len(seq)]
             sorted == sort_by_key(SubSeq(seq, 1, Len(seq) - 1))
             NotAfter(t) == technique_points(t) <= technique_points(last)
             After(t) == ~NotAfter(t)
         IN  SelectSeq(sorted, NotAfter) \o <<last>> \o SelectSeq(sorted, After)

\* Solver::new
techniques == sort_by_key(<<"NakedSingle", "HiddenSingle", "NakedPair">>)

\* what apply_to of a technique can return on a board
apply_to(technique, game_board) ==
    CASE technique = "NakedSingle"  -> {NakedSingle_apply_to(game_board)}
      [] technique = "HiddenSingle" -> {HiddenSingle_apply_to(game_board)}
      [] technique = "NakedPair"    -> NakedPair_apply_to(game_board)

\* the new_board of `if let Ok(new_board)`, written out cell by cell
new_board(result) ==
    [r \in Idx |-> [c \in Idx |->
        [kind   |-> result.board[r][c].kind,
         val    |-> result.board[r][c].val,
         status |-> [v \in 1..SIZE |-> result.board[r][c].status[v]]]]]

\* the while and for loops of Solver::solve from the k-th technique on, when
\* the timeout never passes, and the match that follows them: the set of the
\* <<outcome, board, points, moves>> the call can end with
RECURSIVE SolveLoops(_, _, _, _)
SolveLoops(board, pts, mvs, k) ==
    UNION {IF result.res = "Ok"
           THEN SolveLoops(new_board(result), pts + technique_points(techniques[k]),
                           Append(mvs, technique_names(techniques[k])), 1)
           ELSE IF result.res = "Panic" THEN {<<"panicked", board, pts, mvs>>}
           ELSE IF k < Len(techniques) THEN SolveLoops(board, pts, mvs, k + 1)
           ELSE {<<IF is_victory(board) THEN "Ok" ELSE "Err", board, pts, mvs>>}
           : result \in apply_to(techniques[k], board)}

\* Solver::solve with a timeout that never passes
Solver_solve(board) == SolveLoops(auto_note(clear_notes(board)), 0, <<>>, 1)

\* -------------------------------------------------------------------------
\* The boards the calls are made on
\* -------------------------------------------------------------------------

\* a solved grid, row by row
Grid ==
    << <<5, 3, 4, 1, 2, 8, 9, 6, 7>>, <<1, 2, 7, 6, 9, 5, 3, 4, 8>>,
       <<6, 9, 8, 3, 4, 7, 5, 1, 2>>, <<8, 5, 9, 2, 1, 6, 4, 7, 3>>,
       <<4, 7, 1, 8, 5, 3, 2, 9, 6>>, <<2, 6, 3, 9, 7, 4, 8, 5, 1>>,
       <<9, 1, 6, 5, 3, 2, 7, 8, 4>>, <<7, 8, 2, 4, 6, 9, 1, 3, 5>>,
       <<3, 4, 5, 7, 8, 1, 6, 2, 9>> >>

GridAt(ind) == Grid[ind[2] + 1][ind[1] + 1]

\* the grid without the cells of blank; the clues of the top band are Preset,
\* the others Value
Carved(blank) ==
    [r \in Idx |-> [c \in Idx |->
        IF <<c, r>> \in blank THEN Empty
        ELSE IF r < 3 THEN Preset(GridAt(<<c, r>>)) ELSE Value(GridAt(<<c, r>>))]]

\* four cells of two rows, two columns and two boxes that hold two digits
\* crosswise: without all four the grid has two completions
Rectangle == {<<3, 0>>, <<4, 0>>, <<3, 3>>, <<4, 3>>}

\* a full board with a digit twice in its last row
Spoiled == SetCell(Carved({}), <<0, 8>>, Value(GridAt(<<1, 8>>)))

\* a valid board with no completion: <<4, 0>> has no digit left
Stuck == SetCell(Carved({<<3, 0>>, <<4, 0>>, <<3, 3>>}), <<3, 0>>, Value(GridAt(<<4, 0>>)))

\* the rectangle unfilled, one of its cells holding notes
Noted ==
    SetCell(Carved(Rectangle), <<3, 0>>,
            Notes([d \in Digits |-> IF d = 1 THEN "Deny" ELSE IF d = 5 THEN "Maybe" ELSE "None"]))

\* 21 unfilled cells and 8 completions
Wide ==
    Carved({i \in {<<c, r>> : c \in Idx, r \in Idx} :
                GridAt(i) \in {2, 8} \/ i \in {<<1, 3>>, <<4, 3>>, <<5, 8>>}})

\* an invalid board with an unfilled cell
Clash == SetCell(Carved({<<5, 5>>}), <<0, 8>>, Value(GridAt(<<1, 8>>)))

\* 20 unfilled cells, none with a single candidate, and 4 completions
Tangle ==
    Carved({<<1, 1>>, <<1, 2>>, <<4, 0>>, <<4, 1>>, <<4, 2>>, <<6, 0>>, <<6, 1>>,
            <<6, 2>>, <<6, 7>>, <<6, 8>>, <<7, 0>>, <<7, 1>>, <<7, 2>>, <<7, 5>>,
            <<7, 7>>, <<7, 8>>, <<8, 2>>, <<8, 5>>, <<8, 7>>, <<8, 8>>})

\* 34 unfilled cells; once the singles are placed a region holds two naked
\* pairs, and enforcing the one or the other leads to different boards
Forked ==
    Carved({<<0, 1>>, <<0, 2>>, <<0, 3>>, <<0, 4>>, <<1, 1>>, <<1, 2>>, <<1, 3>>,
            <<1, 4>>, <<1, 5>>, <<2, 0>>, <<2, 2>>, <<3, 0>>, <<3, 1>>, <<3, 4>>,
            <<3, 5>>, <<4, 1>>, <<4, 2>>, <<4, 3>>, <<4, 8>>, <<5, 0>>, <<5, 8>>,
            <<6, 2>>, <<6, 3>>, <<6, 4>>, <<7, 0>>, <<7, 1>>, <<7, 2>>, <<7, 3>>,
            <<7, 4>>, <<7, 5>>, <<8, 1>>, <<8, 2>>, <<8, 4>>, <<8, 5>>})

\* a valid board without completion in which every unfilled cell has a
\* digit that its row, column and box lack
Snare ==
    SetCell(Carved({<<3, 8>>, <<6, 0>>, <<6, 6>>, <<8, 8>>}), <<8, 0>>, Preset(9))

\* 18 unfilled cells and 2 completions; (1,0) is the first unfilled cell of
\* row 0 and (0,1) the first of column 0
Twist == Carved({i \in {<<c, r>> : c \in Idx, r \in Idx} : GridAt(i) \in {1, 3}})

\* a full board with the digit of (0,0) three times in row 0
Crowd ==
    SetCell(SetCell(Carved({}), <<1, 0>>, Value(GridAt(<<0, 0>>))),
            <<2, 0>>, Value(GridAt(<<0, 0>>)))

\* a board whose only repeated digit is in a box, in two rows and columns
BoxClash ==
    SetCell(Carved({<<4, 1>>, <<1, 3>>}), <<1, 1>>, Value(GridAt(<<0, 0>>)))

\* 36 unfilled cells and more than MAX_SOLUTION_SIZE completions
Sparse == Carved({i \in {<<c, r>> : c \in Idx, r \in Idx} : GridAt(i) \in 1..4})

\* -------------------------------------------------------------------------
\* SolutionsTree::solve called on a board, with the deadline anywhere
\* -------------------------------------------------------------------------

\* the latest clock read that can be the first to find the deadline reached
MaxTicks == 8

Deadlines == {-1} \cup 0..MaxTicks

TreeBoards ==
    {Carved(blank) : blank \in SUBSET Rectangle} \cup {Spoiled, Stuck, Noted, Wide, Twist}

NotCalled == [called |-> FALSE, tree |-> None, counter |-> 0, clock |-> StartClock(-1)]

TreeIdle == puzzle = NewBoard /\ deadline = -1 /\ outcome = NotCalled

SolveBoards ==
    {Carved(blank) : blank \in SUBSET Rectangle}
        \cup {Noted, Tangle, Stuck, Clash, Spoiled, Forked}

SolveIdle ==
    /\ given = NewBoard /\ sboard = NewBoard /\ points = 0 /\ moves = <<>>
    /\ tech = 1 /\ spc = "start"

\* the most removals a run is asked for
MaxRemoved == 4

\* num_starting_cells is a public field; 24 is what new and from_seed set
StartingCells == (SIZE * SIZE - MaxRemoved)..(SIZE * SIZE)

\* the cells the random draws fall on while the pool holds one of them
CarveCells == Rectangle

\* the deadlines of the calls of solutions() on those cells: never reached,
\* reached at once, reached at the 8th read of the clock
CarveDeadlines == {-1, 0, MaxTicks - 1}

CarveIdle ==
    /\ num_starting_cells = SIZE * SIZE /\ gboard = NewBoard
    /\ available_cells = <<>> /\ buffer = <<>> /\ cells_removed = 0
    /\ gpc = "returned" /\ move_stack = <<>> /\ missed = 0 /\ swaps_left = 0

\* -------------------------------------------------------------------------
\* The byte string of a board: GameBoard::as_byte_string and
\* game_creator/byte_string_create_game.rs
\* -------------------------------------------------------------------------

\* a | b and a & b on unsigned integers
RECURSIVE BitOr(_, _)
BitOr(a, b) ==
    IF a = 0 THEN b
    ELSE IF b = 0 THEN a
    ELSE (IF a % 2 = 1 \/ b % 2 = 1 THEN 1 ELSE 0) + 2 * BitOr(a \div 2, b \div 2)

RECURSIVE BitAnd(_, _)
BitAnd(a, b) ==
    IF a = 0 \/ b = 0 THEN 0
    ELSE (IF a % 2 = 1 /\ b % 2 = 1 THEN 1 ELSE 0) + 2 * BitAnd(a \div 2, b \div 2)

\* n as u8
AsU8(n) == n % 256

\* the digit goes out as it is
EmitValPlain(value) == value

\* game_board.rs line 675: let val = value + 1, on u8
EmitVal(value) == AsU8(value + 1)

\* game_board.rs lines 673-678: the two bytes of the filled cell (col_n, row_n)
EmitCell(col_n, row_n, value) ==
    LET col  == col_n + 1
        row  == row_n + 1
        val  == EmitVal(value)
        high == AsU8(BitOr(BitOr(64, col * 4), row \div 4))
        low  == BitOr(BitOr(64, AsU8(BitAnd(row * 16, 48))), val)
    IN  <<high, low>>

\* the loop of as_byte_string, rows outside and columns inside: two bytes
\* for every filled cell
EmitCells(b) ==
    LET IsFilled(index) == as_value(cell_value(b, index)) # None
        filled == SelectSeq(AllIndices, IsFilled)
    IN  [n \in 1..(2 * Len(filled)) |->
            LET index == filled[(n + 1) \div 2]
            IN  EmitCell(index[1], index[2],
                         as_value(cell_value(b, index))[1])[2 - (n % 2)]]

as_byte_string(b) == EmitCells(b) \o <<64, 64>>

\* CellBytes::new: the low six bits of each byte, upper first
CellBytes_new(upper, lower) ==
    LET up       == BitAnd(upper, 63)
        lo       == BitAnd(lower, 63)
        expanded == up * 64
    IN  BitOr(expanded, lo)

\* the bit fields of CellBytes
CellBytes_x(cell) == (cell \div 256) % 16

CellBytes_y(cell) == (cell \div 16) % 16

CellBytes_val(cell) == cell % 16

Builds == {"debug", "release"}

\* n as usize - 1: a debug build aborts on 0 - 1, and a release build wraps
\* to usize::MAX, written -1 here
UsizeLess1(n) == IF n = 0 THEN -1 ELSE n - 1

\* the field is taken as the digit
U8Keep(n) == n

\* n - 1 on u8 in a release build
U8Less1(n) == AsU8(n + 255)

\* line 90: with_presets indexes self.cells[y][x] for every clue
LoadEnd(vector) ==
    IF \E k \in 1..Len(vector) :
            vector[k][1][1] \notin Idx \/ vector[k][1][2] \notin Idx
    THEN PanicResult
    ELSE OkResult(with_presets(NewBoard, vector))

\* lines 70-88: the loop of into_game over the pairs of an input of even
\* length. It ends at the first pair that is zero, or with the error of
\* lines 71-73 when the bytes run out; a debug build aborts at the first
\* clue before that with a zero field.
LoadPairs(input, build) ==
    LET pairs   == Len(input) \div 2
        Cell(j) == CellBytes_new(input[2 * j - 1], input[2 * j])
        zeros   == {j \in 1..pairs : Cell(j) = 0}
        clues   == IF zeros = {} THEN pairs
                   ELSE (CHOOSE j \in zeros : \A other \in zeros : j <= other) - 1
        vector  == [j \in 1..clues |->
                       <<<<UsizeLess1(CellBytes_x(Cell(j))), UsizeLess1(CellBytes_y(Cell(j)))>>,
                         U8Less1(CellBytes_val(Cell(j)))>>]
    IN  IF build = "debug" /\ \E j \in 1..clues :
                CellBytes_x(Cell(j)) = 0 \/ CellBytes_y(Cell(j)) = 0 \/ CellBytes_val(Cell(j)) = 0
        THEN PanicResult
        ELSE IF zeros = {} THEN ErrResult
        ELSE LoadEnd(vector)

\* ByteStringLoader::into_game
ByteStringLoader_into_game(input, build) ==
    IF Len(input) % 2 # 0 THEN ErrResult
    ELSE LoadPairs(input, build)

\* the two bytes of a clue with the given fields
Clue(x, y, val) == <<64 + 4 * x + y \div 4, 64 + 16 * (y % 4) + val>>

Sentinel == <<64, 64>>

\* "DRMD", the example of byte_string_create_game.rs
DRMD == <<68, 82, 77, 68>>

\* the values taken for the fields of a clue
ClueFields == {0, 1, 2, 9, 10, 15}

\* what follows the clue: the sentinel, nothing, one byte
Endings == {Sentinel, <<>>, <<64>>}

\* the strings handed to ByteStringLoader::from_string
ByteInputs ==
    {Clue(x, y, val) \o ending :
        x \in ClueFields, y \in ClueFields, val \in ClueFields, ending \in Endings}
    \cup {DRMD, DRMD \o Sentinel, <<4, 18, 128, 192>>, <<>>}

\* the boards as_byte_string is called on
CodecBoards ==
    {Carved(blank) : blank \in SUBSET Rectangle} \cup {Noted, Stuck, Wide, Tangle, NewBoard}

NotLoaded == [res |-> "none", board |-> NewBoard]

\* the boards the read-only calls are made on
QueryBoards ==
    TreeBoards \cup {Snare, Sparse, Clash, Tangle, NewBoard, Crowd, BoxClash}

\* the largest argument given to house and house_mut
MaxHouseArg == 3

HouseArgs == 0..MaxHouseArg

\* the deadline of a call that reads the clock: never reached, reached at
\* once, reached at a later read
QueryDeadlines == {-1, 0, MaxTicks}

NotAsked == [name |-> "none", arg |-> <<>>, result |-> FALSE, clock |-> StartClock(-1)]

QueryIdle == qboard = NewBoard /\ qlimit = -1 /\ answer = NotAsked

CodecIdle ==
    /\ origin = NewBoard /\ bytes = <<>> /\ loaded = NotLoaded /\ cpc = "start"

\* -------------------------------------------------------------------------
\* The board under edit: construction, then set / reset / auto_note /
\* clear_notes calls in any order
\* -------------------------------------------------------------------------

\* the number of operations applied in one run
MaxOps == 2

\* the cells the calls are aimed at: a clue, and two cells that share a house
\* but neither a row nor a column
EditCells == {<<0, 0>>, <<4, 1>>, <<5, 2>>}

EditDigits == {1, 2}

NoteModes == {"Value", "Maybe", "Deny"}

\* the clues of the constructed puzzle
EditClues == << <<<<0, 0>>, 1>>, <<<<8, 1>>, 2>>, <<<<5, 7>>, 1>>, <<<<3, 0>>, 3>>,
                <<<<2, 2>>, 4>> >>

\* that puzzle in play: a digit entered, and a cell with notes, of which one
\* Maybe is on a digit its row holds and the Deny on a digit it could take
Marked ==
    SetCell(SetCell(with_presets(NewBoard, EditClues), <<7, 4>>, Value(6)),
            <<4, 1>>,
            Notes([d \in Digits |-> IF d \in {2, 5} THEN "Maybe"
                                    ELSE IF d = 7 THEN "Deny" ELSE "None"]))

EditBoards == {NewBoard, with_presets(NewBoard, EditClues), Marked}

NoOp == [name |-> "new", ind |-> <<0, 0>>, mode |-> "Value", val |-> 0]

EditIdle ==
    cells = NewBoard /\ start = NewBoard /\ prev = NewBoard /\ op = NoOp /\ nops = 0

EditInit ==
    /\ cells \in EditBoards
    /\ start = cells
    /\ prev = cells
    /\ op = NoOp
    /\ nops = 0
    /\ TreeIdle
    /\ SolveIdle
    /\ CarveIdle
    /\ CodecIdle
    /\ QueryIdle

Set(ind, mode, val) ==
    /\ nops < MaxOps
    /\ cells' = set(cells, ind, mode, val)
    /\ prev' = cells
    /\ op' = [name |-> "set", ind |-> ind, mode |-> mode, val |-> val]
    /\ nops' = nops + 1
    /\ UNCHANGED <<start, treeVars, solveVars, carveVars, codecVars, queryVars>>

Reset(ind) ==
    /\ nops < MaxOps
    /\ cells' = reset(cells, ind)
    /\ prev' = cells
    /\ op' = [NoOp EXCEPT !.name = "reset", !.ind = ind]
    /\ nops' = nops + 1
    /\ UNCHANGED <<start, treeVars, solveVars, carveVars, codecVars, queryVars>>

AutoNote ==
    /\ nops < MaxOps
    /\ cells' = auto_note(cells)
    /\ prev' = cells
    /\ op' = [NoOp EXCEPT !.name = "auto_note"]
    /\ nops' = nops + 1
    /\ UNCHANGED <<start, treeVars, solveVars, carveVars, codecVars, queryVars>>

ClearNotes ==
    /\ nops < MaxOps
    /\ cells' = clear_notes(cells)
    /\ prev' = cells
    /\ op' = [NoOp EXCEPT !.name = "clear_notes"]
    /\ nops' = nops + 1
    /\ UNCHANGED <<start, treeVars, solveVars, carveVars, codecVars, queryVars>>

EditNext ==
    \/ \E ind \in EditCells, mode \in NoteModes, val \in EditDigits : Set(ind, mode, val)
    \/ \E ind \in EditCells : Reset(ind)
    \/ AutoNote
    \/ ClearNotes

Init == EditInit

Next == EditNext

Spec == Init /\ [][Next]_vars

\* -------------------------------------------------------------------------
\* GameBoard::solve, game_board.rs lines 736-762, called on a board
\* -------------------------------------------------------------------------

\* the cells left unfilled on the boards solve is called on
BruteCells == Rectangle \cup {<<8, 8>>}

\* the grid without some of those cells, as it is and with the digit of
\* <<4, 0>> put on <<3, 0>>, and boards with notes, with a repeated digit
\* and with more unfilled cells
BruteBoards ==
    {Carved(blank) : blank \in SUBSET BruteCells}
        \cup {SetCell(Carved(blank \cup {<<4, 0>>}), <<3, 0>>, Value(GridAt(<<4, 0>>))) :
                    blank \in SUBSET (BruteCells \ {<<3, 0>>})}
        \cup {Noted, Spoiled, Clash, Twist}

\* lines 737-761: the two for loops stop at the first cell without a value,
\* in the order of iter_unset, and pass over every cell once that cell is
\* viable, the board then being full; lines 742-753: the loop over val from
\* val on, for the cell at cell_index
RECURSIVE GameBoard_solve(_), solve_vals(_, _, _)
GameBoard_solve(self) ==
    LET unset == iter_unset(self)
        tried == solve_vals(self, unset[1], 1)
    IN  IF unset = <<>>
        THEN [ret |-> is_valid(self) /\ is_complete(self), board |-> self]
        ELSE IF tried.viable
        THEN [ret |-> is_valid(tried.board) /\ is_complete(tried.board),
              board |-> tried.board]
        ELSE [ret |-> FALSE, board |-> tried.board]

solve_vals(self, cell_index, val) ==
    IF val > SIZE THEN [viable |-> FALSE, board |-> self]
    ELSE LET trial == SetCell(self, cell_index, Value(val))
             next  == GameBoard_solve(trial)
         IN  IF is_valid(trial) /\ next.ret
             THEN [viable |-> TRUE, board |-> next.board]
             ELSE solve_vals(trial, cell_index, val + 1)

BruteInit ==
    /\ cells \in BruteBoards
    /\ start = cells
    /\ prev = cells
    /\ op = NoOp
    /\ nops = 0
    /\ TreeIdle
    /\ SolveIdle
    /\ CarveIdle
    /\ CodecIdle
    /\ QueryIdle

Solve ==
    /\ nops < MaxOps
    /\ cells' = GameBoard_solve(cells).board
    /\ prev' = cells
    /\ op' = [name |-> "solve", ind |-> <<0, 0>>, mode |-> "Value", val |-> 0,
              ret |-> GameBoard_solve(cells).ret]
    /\ nops' = nops + 1
    /\ UNCHANGED <<start, treeVars, solveVars, carveVars, codecVars, queryVars>>

BruteNext == Solve

BruteSpec == BruteInit /\ [][BruteNext]_vars

\* -------------------------------------------------------------------------
\* The solutions tree of a board
\* -------------------------------------------------------------------------

TreeInit ==
    /\ puzzle \in TreeBoards
    /\ deadline \in Deadlines
    /\ outcome = NotCalled
    /\ EditIdle
    /\ SolveIdle
    /\ CarveIdle
    /\ CodecIdle
    /\ QueryIdle

TreeSolve ==
    /\ ~outcome.called
    /\ outcome' = LET ret == SolutionsTreeSolve(puzzle, StartClock(deadline))
                  IN  [called |-> TRUE, tree |-> ret.tree,
                       counter |-> ret.counter, clock |-> ret.clock]
    /\ UNCHANGED <<puzzle, deadline, editVars, solveVars, carveVars, codecVars, queryVars>>

TreeNext == TreeSolve

TreeSpec == TreeInit /\ [][TreeNext]_vars

\* -------------------------------------------------------------------------
\* Solver::solve on a board, the timeout found passed at any of its checks
\* -------------------------------------------------------------------------

SolveInit ==
    /\ given \in SolveBoards
    /\ sboard = given
    /\ points = 0
    /\ moves = <<>>
    /\ tech = 1
    /\ spc = "start"
    /\ EditIdle
    /\ TreeIdle
    /\ CarveIdle
    /\ CodecIdle
    /\ QueryIdle

\* lines 83-91: the clone, clear_notes, auto_note, and the entry of the loop
SolveBegin ==
    /\ spc = "start"
    /\ sboard' = auto_note(clear_notes(given))
    /\ spc' = "loop"
    /\ UNCHANGED <<given, points, moves, tech, editVars, treeVars, carveVars, codecVars, queryVars>>

\* lines 95-97: the timeout has passed, the loops are left
SolveTimeout ==
    /\ spc = "loop"
    /\ spc' = "exit"
    /\ UNCHANGED <<given, sboard, points, moves, tech, editVars, treeVars, carveVars, codecVars, queryVars>>

\* lines 99-106 for the technique in hand, given what its apply_to returned:
\* on Ok the board is replaced and the for loop starts again, on Err the next
\* technique is tried, or the loops end with the last one
Applied(result) ==
    /\ sboard' = IF result.res = "Ok" THEN result.board ELSE sboard
    /\ points' = IF result.res = "Ok"
                 THEN points + technique_points(techniques[tech]) ELSE points
    /\ moves' = IF result.res = "Ok"
                THEN Append(moves, technique_names(techniques[tech])) ELSE moves
    /\ tech' = IF result.res = "Ok" THEN 1
               ELSE IF result.res = "Err" /\ tech < Len(techniques) THEN tech + 1
               ELSE tech
    /\ spc' = IF result.res = "Panic" THEN "panicked"
              ELSE IF result.res = "Err" /\ tech = Len(techniques) THEN "exit"
              ELSE "loop"
    /\ UNCHANGED <<given, editVars, treeVars, carveVars, codecVars, queryVars>>

TryNakedSingle ==
    /\ spc = "loop" /\ techniques[tech] = "NakedSingle"
    /\ Applied(NakedSingle_apply_to(sboard))

TryHiddenSingle ==
    /\ spc = "loop" /\ techniques[tech] = "HiddenSingle"
    /\ Applied(HiddenSingle_apply_to(sboard))

TryNakedPair ==
    /\ spc = "loop" /\ techniques[tech] = "NakedPair"
    /\ \E result \in NakedPair_apply_to(sboard) : Applied(result)

\* lines 110-121
SolveReturn ==
    /\ spc = "exit"
    /\ spc' = IF is_victory(sboard) THEN "Ok" ELSE "Err"
    /\ UNCHANGED <<given, sboard, points, moves, tech, editVars, treeVars, carveVars, codecVars, queryVars>>

SolveNext ==
    \/ SolveBegin
    \/ SolveTimeout
    \/ TryNakedSingle
    \/ TryHiddenSingle
    \/ TryNakedPair
    \/ SolveReturn

SolveSpec == SolveInit /\ [][SolveNext]_vars

\* Solver::solve when `start.elapsed() >= self.timeout_duration` is false at
\* every read: the steps but SolveTimeout
SteadyNext ==
    \/ SolveBegin
    \/ TryNakedSingle
    \/ TryHiddenSingle
    \/ TryNakedPair
    \/ SolveReturn

SteadySpec == SolveInit /\ [][SteadyNext]_vars

\* -------------------------------------------------------------------------
\* game_creator/random_create_game.rs: into_game from line 179 on, the
\* removal of cells from the full board and the promotion to Preset
\* -------------------------------------------------------------------------

\* nothing is taken out
remove_none(vec, index) == vec

\* Vec::remove
remove(vec, index) == SubSeq(vec, 1, index - 1) \o SubSeq(vec, index + 1, Len(vec))

\* every attempt counts
CountedAlways(removed, accepted) == removed + 1

\* line 213, inside the test of lines 206-207
Counted(removed, accepted) == IF accepted THEN removed + 1 ELSE removed

\* lines 224-231
Promoted(b) ==
    [r \in Idx |-> [c \in Idx |->
        IF b[r][c].kind = "Value" THEN Preset(b[r][c].val) ELSE b[r][c]]]

\* the positions in the pool the random draw is taken from
Draws(pool) ==
    LET aimed == {k \in 1..Len(pool) : pool[k] \in CarveCells}
    IN  IF aimed # {}
        THEN {CHOOSE k \in aimed : \A other \in aimed : k <= other,
              CHOOSE k \in aimed : \A other \in aimed : k >= other}
        ELSE {k \in 1..Len(pool) : k = 1}

\* the deadlines taken for solutions() on the board without index: a call on
\* a cell outside CarveCells finds its deadline reached at once
DrawDeadlines(index) == IF index \in CarveCells THEN CarveDeadlines ELSE {0}

\* the cells of a set in the order of AllIndices
InOrder(some) ==
    LET Within(i) == i \in some
    IN  SelectSeq(AllIndices, Within)

\* RandomMove(cell, digit) for the grid's digit on each cell of some, in the
\* order of AllIndices
GridMoves(some) ==
    LET order == InOrder(some)
    IN  [k \in 1..Len(order) |-> <<order[k], GridAt(order[k])>>]

\* lines 80-81 and the moves of GridMoves(AllCells \ blank): the grid as
\* Value cells but on blank, the notes as do_move and undo_move leave them
FillBoard(blank) ==
    auto_note([r \in Idx |-> [c \in Idx |->
        IF <<c, r>> \in blank THEN Empty ELSE Value(GridAt(<<c, r>>))]])

\* lines 179-186, on the full valid board the first two phases leave
CarveInit ==
    /\ num_starting_cells \in StartingCells
    /\ gboard = [r \in Idx |-> [c \in Idx |-> Value(GridAt(<<c, r>>))]]
    /\ available_cells = AllIndices
    /\ buffer = <<>>
    /\ cells_removed = 0
    /\ gpc = "carving"
    /\ move_stack = GridMoves(AllCells)
    /\ missed = 0
    /\ swaps_left = 0
    /\ EditIdle
    /\ TreeIdle
    /\ SolveIdle
    /\ CodecIdle
    /\ QueryIdle

\* lines 188-223: one turn of the loop
RemoveCell(next_index, limit) ==
    /\ gpc = "carving"
    /\ cells_removed < SIZE * SIZE - num_starting_cells
    /\ available_cells # <<>>
    /\ LET index    == available_cells[next_index]
           rest     == remove(available_cells, next_index)
           next     == reset(gboard, index)
           sol      == SolutionsTreeSolve(next, StartClock(limit)).tree
           accepted == sol # None /\ num_solutions(sol[1]) = 1
       IN  /\ gboard' = IF accepted THEN next ELSE gboard
           /\ cells_removed' = Counted(cells_removed, accepted)
           /\ available_cells' = IF accepted THEN rest \o buffer ELSE rest
           /\ buffer' = IF accepted THEN <<>> ELSE Append(buffer, index)
    /\ UNCHANGED <<num_starting_cells, swaps_left, gpc, move_stack, missed,
                   editVars, treeVars, solveVars, codecVars, queryVars>>

\* the loop is left, by its condition or by the break of lines 189-191; then
\* lines 224-240
Promote ==
    /\ gpc = "carving"
    /\ (cells_removed >= SIZE * SIZE - num_starting_cells \/ available_cells = <<>>)
    /\ gboard' = Promoted(gboard)
    /\ gpc' = "returned"
    /\ UNCHANGED <<num_starting_cells, swaps_left, available_cells, buffer, cells_removed,
                   move_stack, missed,
                   editVars, treeVars, solveVars, codecVars, queryVars>>

CarveNext ==
    \/ \E next_index \in Draws(available_cells) :
            \E limit \in DrawDeadlines(available_cells[next_index]) :
                RemoveCell(next_index, limit)
    \/ Promote

CarveSpec == CarveInit /\ [][CarveNext]_vars

\* -------------------------------------------------------------------------
\* RandomLoader::into_game, lines 79-137: the board is filled
\* -------------------------------------------------------------------------

\* the deadlines met that are followed in one run on the boards that are searched
MaxHits == 1

\* can_be_completed on a board with more unfilled cells than this finds its
\* deadline reached at its first read of the clock
MaxSearched == 6

\* the unfilled cells of the boards the filling is taken up from: none
\* filled, and all filled but three cells of the rectangle
FillStarts == {AllCells, Rectangle \ {<<4, 3>>}}

\* the move is taken back and the notes are left as they are
undo_move_bare(board, pool, random_move) ==
    [board |-> reset(board, random_move[1]), pool |-> Append(pool, random_move[1])]

\* the digit is written and the notes of the other cells are left alone
do_move_unseen(board, random_move) ==
    SetCell(board, random_move[1], Value(random_move[2]))

\* lines 62-65
do_move(board, random_move) == set(board, random_move[1], "Value", random_move[2])

\* lines 67-73
undo_move(board, pool, random_move) ==
    [board |-> auto_note(reset(board, random_move[1])),
     pool  |-> Append(pool, random_move[1])]

\* the positions in maybe_values the random digit is taken from
ValueDraws(board, next_cell) ==
    LET maybe_vec == Flatten(maybe_values(cell_value(board, next_cell)))
    IN  IF maybe_vec = <<>> THEN {1} ELSE {1, Len(maybe_vec)}

\* the deadlines of the calls of can_be_completed: never reached, or reached
\* at the first read of the clock
FillDeadlines(board, met) ==
    IF Len(iter_unset(board)) > MaxSearched THEN {0}
    ELSE IF met < MaxHits THEN {-1, 0} ELSE {-1}

\* lines 79-90
FillInit ==
    /\ \E blank \in FillStarts :
            /\ gboard = FillBoard(blank)
            /\ available_cells = InOrder(blank)
            /\ move_stack = GridMoves(AllCells \ blank)
    /\ gpc = "filling"
    /\ missed = 0
    /\ swaps_left = 0
    /\ num_starting_cells = SIZE * SIZE
    /\ buffer = <<>>
    /\ cells_removed = 0
    /\ EditIdle
    /\ TreeIdle
    /\ SolveIdle
    /\ CodecIdle
    /\ QueryIdle

\* lines 91-110: a turn of the loop up to the push of the move
Place(next_index, value_index) ==
    /\ gpc = "filling"
    /\ is_valid(gboard) /\ ~is_complete(gboard)
    /\ available_cells # <<>>
    /\ LET next_cell    == available_cells[next_index]
           maybe_vec    == maybe_values(cell_value(gboard, next_cell))
           random_move  == <<next_cell, maybe_vec[1][value_index]>>
       IN  /\ available_cells' = remove(available_cells, next_index)
           /\ IF maybe_vec = None
              THEN gpc' = "SelectedCellAlreadySet" /\ UNCHANGED <<gboard, move_stack>>
              ELSE IF maybe_vec[1] = <<>>
              THEN gpc' = "Ok" /\ UNCHANGED <<gboard, move_stack>>
              ELSE /\ gboard' = do_move(gboard, random_move)
                   /\ move_stack' = Append(move_stack, random_move)
                   /\ gpc' = "checking"
    /\ UNCHANGED <<num_starting_cells, swaps_left, buffer, cells_removed, missed,
                   editVars, treeVars, solveVars, codecVars, queryVars>>

\* lines 112-131: one test of the inner loop, and its body
Check(limit) ==
    /\ gpc = "checking"
    /\ LET ret == can_be_completed(gboard, StartClock(limit))
           top == move_stack[Len(move_stack)]
       IN  /\ missed' = IF ret.clock.hit /\ missed < MaxHits
                      THEN missed + 1 ELSE missed
           /\ IF ret.result
              THEN gpc' = "filling" /\ UNCHANGED <<gboard, available_cells, move_stack>>
              ELSE IF move_stack = <<>>
              THEN /\ gpc' = "CorruptedBoardIntractable"
                   /\ UNCHANGED <<gboard, available_cells, move_stack>>
              ELSE /\ gboard' = undo_move(gboard, available_cells, top).board
                   /\ available_cells' = undo_move(gboard, available_cells, top).pool
                   /\ move_stack' = SubSeq(move_stack, 1, Len(move_stack) - 1)
                   /\ UNCHANGED gpc
    /\ UNCHANGED <<num_starting_cells, swaps_left, buffer, cells_removed,
                   editVars, treeVars, solveVars, codecVars, queryVars>>

\* the loop is left by its condition of line 91, then lines 134-137; with
\* the pool empty gen_range(0..0) of line 92 panics
FillLeave ==
    /\ gpc = "filling"
    /\ (~(is_valid(gboard) /\ ~is_complete(gboard)) \/ available_cells = <<>>)
    /\ gpc' = IF is_valid(gboard) /\ ~is_complete(gboard) THEN "panicked"
              ELSE IF is_complete(gboard) /\ ~is_valid(gboard)
              THEN "InvalidBoardCreated"
              ELSE "filled"
    /\ UNCHANGED <<num_starting_cells, swaps_left, gboard, available_cells, buffer,
                   cells_removed, move_stack, missed,
                   editVars, treeVars, solveVars, codecVars, queryVars>>

FillNext ==
    \/ \E next_index \in Draws(available_cells) :
            \E value_index \in ValueDraws(gboard, available_cells[next_index]) :
                Place(next_index, value_index)
    \/ \E limit \in FillDeadlines(gboard, missed) : Check(limit)
    \/ FillLeave

FillSpec == FillInit /\ [][FillNext]_vars

\* -------------------------------------------------------------------------
\* RandomLoader::into_game, lines 146-177: rows and columns are swapped
\* -------------------------------------------------------------------------

\* the turns of the loop that are followed, out of the 4 to 16 a run makes
MaxSwaps == 3

\* the columns are exchanged in the first row only
swap_columns_once(b, col1, col2) ==
    [b EXCEPT ![0] = [b[0] EXCEPT ![col1] = b[0][col2], ![col2] = b[0][col1]]]

\* game_board.rs lines 780-784
swap_rows(b, row1, row2) == [b EXCEPT ![row1] = b[row2], ![row2] = b[row1]]

\* game_board.rs lines 786-792
swap_columns(b, col1, col2) ==
    [row \in Idx |-> [b[row] EXCEPT ![col1] = b[row][col2], ![col2] = b[row][col1]]]

\* line 151, and lines 153-159: index2 is drawn again until it differs
BaseIndices == {k * 3 : k \in 0..2}

IndexPairs == {pair \in (0..2) \X (0..2) : pair[1] # pair[2]}

\* the loop of lines 148-177 with some of its turns left, on the full valid
\* board the filling leaves
ShuffleInit ==
    /\ swaps_left \in 1..MaxSwaps
    /\ gboard = FillBoard({})
    /\ available_cells = <<>>
    /\ move_stack = GridMoves(AllCells)
    /\ gpc = "swapping"
    /\ missed = 0
    /\ num_starting_cells = SIZE * SIZE
    /\ buffer = <<>>
    /\ cells_removed = 0
    /\ EditIdle
    /\ TreeIdle
    /\ SolveIdle
    /\ CodecIdle
    /\ QueryIdle

\* lines 148-176: one turn
Swap(swap_column, base_index, index1, index2) ==
    /\ gpc = "swapping"
    /\ swaps_left > 0
    /\ gboard' = IF swap_column
                 THEN swap_columns(gboard, base_index + index1, base_index + index2)
                 ELSE swap_rows(gboard, base_index + index1, base_index + index2)
    /\ swaps_left' = swaps_left - 1
    /\ UNCHANGED <<num_starting_cells, available_cells, buffer, cells_removed, gpc,
                   move_stack, missed,
                   editVars, treeVars, solveVars, codecVars, queryVars>>

\* lines 179-186: the loop is over, the pool of the removals is made
Swapped ==
    /\ gpc = "swapping"
    /\ swaps_left = 0
    /\ cells_removed' = 0
    /\ available_cells' = AllIndices
    /\ buffer' = <<>>
    /\ gpc' = "carving"
    /\ UNCHANGED <<num_starting_cells, gboard, move_stack, missed, swaps_left,
                   editVars, treeVars, solveVars, codecVars, queryVars>>

ShuffleNext ==
    \/ \E swap_column \in BOOLEAN, base_index \in BaseIndices, pair \in IndexPairs :
            Swap(swap_column, base_index, pair[1], pair[2])
    \/ Swapped

ShuffleSpec == ShuffleInit /\ [][ShuffleNext]_vars

\* -------------------------------------------------------------------------
\* What the claims speak of, stated on sets of cells
\* -------------------------------------------------------------------------

SameBox(i, j) == (i[1] \div 3 = j[1] \div 3) /\ (i[2] \div 3 = j[2] \div 3)

\* j is seen by i: another cell of i's row, column or 3x3 box
Sees(i, j) == i # j /\ (i[1] = j[1] \/ i[2] = j[2] \/ SameBox(i, j))

HasValue(cell) == cell.kind \in {"Preset", "Value"}

MaybeSet(cell) ==
    IF cell.kind = "Notes" THEN {d \in Digits : cell.status[d] = "Maybe"} ELSE {}

DenySet(cell) ==
    IF cell.kind = "Notes" THEN {d \in Digits : cell.status[d] = "Deny"} ELSE {}

PresetCells(b) == {i \in AllCells : cell_value(b, i).kind = "Preset"}

FilledCells(b) == {i \in AllCells : HasValue(cell_value(b, i))}

\* no two cells that see each other hold the same digit
ValidBoard(b) ==
    \A i \in AllCells : HasValue(cell_value(b, i)) =>
        \A j \in AllCells :
            (Sees(i, j) /\ HasValue(cell_value(b, j)))
                => cell_value(b, i).val # cell_value(b, j).val

\* the digits held by no cell that i sees
Absent(b, i) ==
    {d \in Digits : \A j \in AllCells :
        (Sees(i, j) /\ HasValue(cell_value(b, j))) => cell_value(b, j).val # d}

RowOf(i) == {k \in AllCells : k[2] = i[2]}

ColumnOf(i) == {k \in AllCells : k[1] = i[1]}

BoxOf(i) == {k \in AllCells : SameBox(i, k)}

\* no two cells of the region hold the same digit
NoRepeat(b, region) ==
    \A j \in region, k \in region :
        (j # k /\ HasValue(cell_value(b, j)) /\ HasValue(cell_value(b, k)))
            => cell_value(b, j).val # cell_value(b, k).val

\* with d placed at i, the row, the column and the box of i are valid
LeavesValid(b, i, d) ==
    LET t == SetCell(b, i, Value(d))
    IN  NoRepeat(t, RowOf(i)) /\ NoRepeat(t, ColumnOf(i)) /\ NoRepeat(t, BoxOf(i))

\* -------------------------------------------------------------------------
\* The byte-string loader: a loader made from a string, or from the string
\* emitted for a board, and the board it loads emitted again
\* -------------------------------------------------------------------------

\* ByteStringLoader::from_string on a string, or a board to emit
CodecInit ==
    /\ \/ origin = NewBoard /\ bytes \in ByteInputs /\ cpc = "start"
       \/ origin \in CodecBoards /\ bytes = <<>> /\ cpc = "board"
    /\ loaded = NotLoaded
    /\ EditIdle
    /\ TreeIdle
    /\ SolveIdle
    /\ CarveIdle
    /\ QueryIdle

\* from_string(origin.as_byte_string())
FromBoard ==
    /\ cpc = "board"
    /\ bytes' = as_byte_string(origin)
    /\ cpc' = "emitted"
    /\ UNCHANGED <<origin, loaded, editVars, treeVars, solveVars, carveVars, queryVars>>

\* into_game on a string that was not emitted
IntoGame(build) ==
    /\ cpc = "start"
    /\ loaded' = ByteStringLoader_into_game(bytes, build)
    /\ cpc' = "loaded"
    /\ UNCHANGED <<origin, bytes, editVars, treeVars, solveVars, carveVars, queryVars>>

\* into_game on an emitted string
IntoGameAgain(build) ==
    /\ cpc = "emitted"
    /\ loaded' = ByteStringLoader_into_game(bytes, build)
    /\ cpc' = "reloaded"
    /\ UNCHANGED <<origin, bytes, editVars, treeVars, solveVars, carveVars, queryVars>>

\* as_byte_string on the board that was loaded; value + 1 stays within u8
Reemit ==
    /\ cpc \in {"loaded", "reloaded"}
    /\ loaded.res = "Ok"
    /\ \A i \in AllCells : cell_value(loaded.board, i).val < 255
    /\ origin' = loaded.board
    /\ bytes' = as_byte_string(loaded.board)
    /\ loaded' = NotLoaded
    /\ cpc' = "emitted"
    /\ UNCHANGED <<editVars, treeVars, solveVars, carveVars, queryVars>>

CodecNext ==
    \/ FromBoard
    \/ \E build \in Builds : IntoGame(build)
    \/ \E build \in Builds : IntoGameAgain(build)
    \/ Reemit

CodecSpec == CodecInit /\ [][CodecNext]_vars

\* -------------------------------------------------------------------------
\* Read-only calls on a board
\* -------------------------------------------------------------------------

QueryInit ==
    /\ qboard \in QueryBoards
    /\ qlimit \in QueryDeadlines
    /\ answer = NotAsked
    /\ EditIdle
    /\ TreeIdle
    /\ SolveIdle
    /\ CarveIdle
    /\ CodecIdle

\* what a call that reads no clock leaves in answer
Told(name, arg, result) ==
    [name |-> name, arg |-> arg, result |-> result, clock |-> StartClock(-1)]

IsValid ==
    /\ answer.name = "none"
    /\ answer' = Told("is_valid", <<>>, is_valid(qboard))
    /\ UNCHANGED <<qboard, qlimit, editVars, treeVars, solveVars, carveVars, codecVars>>

InvalidCells ==
    /\ answer.name = "none"
    /\ answer' = Told("invalid_cells", <<>>, invalid_cells(qboard))
    /\ UNCHANGED <<qboard, qlimit, editVars, treeVars, solveVars, carveVars, codecVars>>

IsComplete ==
    /\ answer.name = "none"
    /\ answer' = Told("is_complete", <<>>, is_complete(qboard))
    /\ UNCHANGED <<qboard, qlimit, editVars, treeVars, solveVars, carveVars, codecVars>>

IsVictory ==
    /\ answer.name = "none"
    /\ answer' = Told("is_victory", <<>>, is_victory(qboard))
    /\ UNCHANGED <<qboard, qlimit, editVars, treeVars, solveVars, carveVars, codecVars>>

GetHouse(x, y) ==
    /\ answer.name = "none"
    /\ answer' = Told("house", <<x, y>>, house(qboard, x, y))
    /\ UNCHANGED <<qboard, qlimit, editVars, treeVars, solveVars, carveVars, codecVars>>

GetHouseMut(x, y) ==
    /\ answer.name = "none"
    /\ answer' = Told("house_mut", <<x, y>>, house_mut(qboard, x, y))
    /\ UNCHANGED <<qboard, qlimit, editVars, treeVars, solveVars, carveVars, codecVars>>

\* can_be_completed(&qboard), its clock started by Node::solve
CanBeCompleted ==
    /\ answer.name = "none"
    /\ LET ret == can_be_completed(qboard, StartClock(qlimit))
       IN  answer' = [name |-> "can_be_completed", arg |-> <<>>,
                      result |-> ret.result, clock |-> ret.clock]
    /\ UNCHANGED <<qboard, qlimit, editVars, treeVars, solveVars, carveVars, codecVars>>

QueryNext ==
    \/ CanBeCompleted
    \/ IsValid
    \/ InvalidCells
    \/ IsComplete
    \/ IsVictory
    \/ \E x \in HouseArgs, y \in HouseArgs : GetHouse(x, y)
    \/ \E x \in HouseArgs, y \in HouseArgs : GetHouseMut(x, y)

QuerySpec == QueryInit /\ [][QueryNext]_vars

\* -------------------------------------------------------------------------
\* Claims on the board under edit
\* -------------------------------------------------------------------------

\* C1: set(i, Value, d) on a cell that is not Preset makes the cell Value(d)
\* and, in the same step, unsets digit d's flag in every Notes cell that i
\* sees; no cell seen by i keeps Maybe for d, and no other cell and no flag
\* of another digit changes.
C1_SetValueClearsSeenCells ==
    (op.name = "set" /\ op.mode = "Value"
        /\ cell_value(prev, op.ind).kind # "Preset")
    => /\ cell_value(cells, op.ind) = Value(op.val)
       /\ \A j \in AllCells \ {op.ind} :
            LET before == cell_value(prev, j)
                after  == cell_value(cells, j)
            IN  /\ Sees(op.ind, j) => op.val \notin MaybeSet(after)
                /\ IF Sees(op.ind, j) /\ before.kind = "Notes"
                   THEN after = Notes([before.status EXCEPT ![op.val] = "None"])
                   ELSE after = before

\* a Value write whose digit was Maybe on a cell it sees only through the box
C1_Witness ==
    /\ op.name = "set" /\ op.mode = "Value"
    /\ cell_value(prev, op.ind).kind # "Preset"
    /\ \E j \in AllCells :
        /\ SameBox(op.ind, j) /\ j[1] # op.ind[1] /\ j[2] # op.ind[2]
        /\ op.val \in MaybeSet(cell_value(prev, j))
    /\ \E j \in AllCells :
        ~Sees(op.ind, j) /\ j # op.ind /\ op.val \in MaybeSet(cell_value(cells, j))

\* C2: a cell constructed as Preset(d) is still Preset(d) after every
\* sequence of set and reset calls, whichever cells they are aimed at.
C2_PresetImmutable ==
    \A j \in AllCells :
        cell_value(start, j).kind = "Preset"
            => cell_value(cells, j) = cell_value(start, j)

\* two calls made, the last one a set or a reset aimed at a clue
C2_Witness ==
    /\ nops >= 2
    /\ op.name \in {"set", "reset"}
    /\ cell_value(start, op.ind).kind = "Preset"

\* C3: auto_note on a valid board leaves every filled cell and every Deny
\* flag as it was, and gives every unfilled cell Maybe for exactly the digits
\* that were Maybe before plus the digits not denied on the cell whose
\* placement leaves its row, column and box valid; for a cell that was Empty
\* these are the digits absent from its row, column and box.
C3_AutoNoteCandidates ==
    (op.name = "auto_note" /\ ValidBoard(prev))
    => \A j \in AllCells :
        LET before == cell_value(prev, j)
            after  == cell_value(cells, j)
        IN  IF HasValue(before) THEN after = before
            ELSE /\ ~HasValue(after)
                 /\ DenySet(after) = DenySet(before)
                 /\ MaybeSet(after) = MaybeSet(before) \cup
                        {d \in Digits \ DenySet(before) : LeavesValid(prev, j, d)}
                 /\ before.kind = "Empty" => MaybeSet(after) = Absent(prev, j)

\* auto_note ran on a valid board with clues, where one unfilled cell had a
\* digit denied that its row, column and box lack
C3_Witness ==
    /\ op.name = "auto_note"
    /\ ValidBoard(prev)
    /\ \E j \in AllCells : HasValue(cell_value(prev, j))
    /\ \E j \in AllCells :
        /\ DenySet(cell_value(prev, j)) \cap Absent(prev, j) # {}
        /\ MaybeSet(cell_value(cells, j)) # {}

\* C21: set(i, Maybe, d) and set(i, Deny, d) change no cell but i; a Value
\* or Preset cell i stays as it was; an Empty cell i becomes Notes with d's
\* flag at the mode and every other flag unset; on a Notes cell i digit d's
\* flag becomes unset if it was the mode and the mode otherwise (also when it
\* was the other mode), and no other digit's flag changes.
C21_NoteToggle ==
    (op.name = "set" /\ op.mode \in {"Maybe", "Deny"})
    => /\ \A j \in AllCells \ {op.ind} : cell_value(cells, j) = cell_value(prev, j)
       /\ LET before == cell_value(prev, op.ind)
               after  == cell_value(cells, op.ind)
           IN  CASE before.kind \in {"Preset", "Value"} -> after = before
                 [] before.kind = "Empty" ->
                        /\ after.kind = "Notes"
                        /\ \A d \in Digits :
                            after.status[d] = IF d = op.val THEN op.mode ELSE "None"
                 [] OTHER ->
                        /\ after.kind = "Notes"
                        /\ \A d \in Digits :
                            after.status[d] =
                                IF d # op.val THEN before.status[d]
                                ELSE IF before.status[d] = op.mode THEN "None"
                                ELSE op.mode

\* a Maybe written on a digit that the Notes cell had denied
C21_Witness ==
    /\ op.name = "set" /\ op.mode = "Maybe"
    /\ cell_value(prev, op.ind).kind = "Notes"
    /\ cell_value(prev, op.ind).status[op.val] = "Deny"
    /\ cell_value(cells, op.ind).status[op.val] = "Maybe"

\* C20: after auto_note on a valid board, whatever mix of Preset, Value,
\* Empty and Notes cells with Maybe and Deny flags it held, one more
\* auto_note gives the same board, and finds no digit to toggle on any
\* unfilled cell.
C20_AutoNoteIdempotent ==
    (op.name = "auto_note" /\ ValidBoard(prev))
    => /\ auto_note(cells) = cells
       /\ \A j \in AllCells :
            ~HasValue(cell_value(cells, j)) => AutoNoteDigits(cells, j) = <<>>

\* auto_note ran on a valid board that held Preset, Value, Empty and Notes
\* cells, with a Maybe and a Deny flag, and added flags to it
C20_Witness ==
    /\ op.name = "auto_note"
    /\ ValidBoard(prev)
    /\ \A kind \in {"Preset", "Value", "Empty", "Notes"} :
            \E j \in AllCells : cell_value(prev, j).kind = kind
    /\ \E j \in AllCells : MaybeSet(cell_value(prev, j)) # {}
    /\ \E j \in AllCells : DenySet(cell_value(prev, j)) # {}
    /\ cells # prev
    /\ auto_note(cells) = cells

\* -------------------------------------------------------------------------
\* Claims on the solutions tree
\* -------------------------------------------------------------------------

\* every cell holds a digit
FullBoard(b) == \A i \in AllCells : HasValue(cell_value(b, i))

Unfilled(b) == {i \in AllCells : ~HasValue(cell_value(b, i))}

\* the completions of b: the full valid boards that keep every filled cell
\* of b, the others holding Value cells
RECURSIVE Completions(_)
Completions(b) ==
    IF Unfilled(b) = {} THEN (IF ValidBoard(b) THEN {b} ELSE {})
    ELSE LET i == CHOOSE j \in Unfilled(b) : TRUE
         IN  UNION {Completions(SetCell(b, i, Value(d))) : d \in Absent(b, i)}

\* the boards at the leaves of a tree
RECURSIVE LeafBoards(_)
LeafBoards(node) ==
    IF node.node_type = "Leaf" THEN {node.board}
    ELSE UNION {LeafBoards(node.children[k][2]) : k \in 1..Len(node.children)}

\* leaf keeps every Preset and Value cell of b
Keeps(b, leaf) ==
    \A i \in AllCells : HasValue(cell_value(b, i)) => cell_value(leaf, i) = cell_value(b, i)

\* C4: whenever SolutionsTree::solve returns a tree, every leaf board, and
\* the board first_solution returns, is valid and complete and has at every
\* cell that was Preset or Value in the input the same cell as the input.
C4_LeavesSound ==
    (outcome.called /\ outcome.tree # None)
    => \A leaf \in LeafBoards(outcome.tree[1]) \cup {solution(outcome.tree[1])} :
        /\ ValidBoard(leaf)
        /\ FullBoard(leaf)
        /\ Keeps(puzzle, leaf)

\* a tree with two leaves was returned for a board with Preset and Value clues
C4_Witness ==
    /\ outcome.called /\ outcome.tree # None
    /\ Cardinality(LeafBoards(outcome.tree[1])) = 2
    /\ \E i, j \in AllCells :
        cell_value(puzzle, i).kind = "Preset" /\ cell_value(puzzle, j).kind = "Value"

\* C5: when the deadline is not reached and the input has at least one and
\* at most MAX_SOLUTION_SIZE completions, SolutionsTree::solve returns a tree
\* whose num_solutions() is the number of completions of the input.
C5_CompleteUnderBudget ==
    (outcome.called /\ ~outcome.clock.hit)
    => LET n == Cardinality(Completions(puzzle))
       IN  (1 <= n /\ n <= MAX_SOLUTION_SIZE)
           => outcome.tree # None /\ num_solutions(outcome.tree[1]) = n

\* C6: SolutionsTree::solve returns no tree when the deadline was reached
\* during the construction, so the num_solutions() of a returned tree is
\* never less than the number of completions of the input.
C6_DeadlineGivesNone ==
    (outcome.called /\ outcome.tree # None)
    => /\ ~outcome.clock.hit
       /\ num_solutions(outcome.tree[1]) >= Cardinality(Completions(puzzle))

\* b and c hold the same digits
SameDigits(b, c) == \A i \in AllCells : cell_value(b, i).val = cell_value(c, i).val

\* the cell a branch node fills in its children
BranchCell(node) ==
    CHOOSE i \in AllCells :
        /\ ~HasValue(cell_value(node.board, i))
        /\ HasValue(cell_value(node.children[1][2].board, i))

\* the first unfilled cell of b, row 0 from column 0 to 8, then row 1, ...
RowMajorFirst(b) ==
    CHOOSE i \in Unfilled(b) :
        \A j \in Unfilled(b) : i[2] < j[2] \/ (i[2] = j[2] /\ i[1] <= j[1])

\* b comes before c when the cells are read in row-major order
RowMajorBefore(b, c) ==
    \E n \in 1..(SIZE * SIZE) :
        /\ cell_value(b, AllIndices[n]).val < cell_value(c, AllIndices[n]).val
        /\ \A k \in 1..(n - 1) :
                cell_value(b, AllIndices[k]).val = cell_value(c, AllIndices[k]).val

\* C18: the root of a returned tree branches on the first unfilled cell of
\* the input in row-major order, and when the deadline was not reached
\* first_solution is the completion that is least in row-major order.
C18_RowMajorLeast ==
    (outcome.called /\ outcome.tree # None)
    => /\ outcome.tree[1].node_type = "Branch"
            => BranchCell(outcome.tree[1]) = RowMajorFirst(puzzle)
       /\ ~outcome.clock.hit
            => \A other \in Completions(puzzle) :
                \/ SameDigits(solution(outcome.tree[1]), other)
                \/ RowMajorBefore(solution(outcome.tree[1]), other)

\* -------------------------------------------------------------------------
\* Claims on the logical solver
\* -------------------------------------------------------------------------

\* the completions of each board handed to the solver
SolveTruth == [b \in SolveBoards |-> Completions(b)]

\* the cells solve has filled
Filled == {i \in Unfilled(given) : HasValue(cell_value(sboard, i))}


\* C7: for an input with at least one completion, every cell that
\* Solver::solve has filled in the board it returns holds the digit the cell
\* has in every completion of the input, and every Preset and Value cell of
\* the input is kept; a Solution is a full valid board, and for an input with
\* exactly one completion it is that completion.
C7_NeverGuesses ==
    (spc \in {"Ok", "Err"} /\ SolveTruth[given] # {})
    => /\ Keeps(given, sboard)
       /\ \A i \in Filled : \A full \in SolveTruth[given] :
            cell_value(sboard, i).val = cell_value(full, i).val
       /\ spc = "Ok" => ValidBoard(sboard) /\ FullBoard(sboard)
       /\ (spc = "Ok" /\ Cardinality(SolveTruth[given]) = 1)
            => \A full \in SolveTruth[given] : SameDigits(sboard, full)

\* solve returned a partial board for an input with several completions,
\* after filling cells with the help of a naked pair
C7_Witness ==
    /\ spc = "Err"
    /\ Cardinality(SolveTruth[given]) >= 2
    /\ Filled # {}
    /\ \E k \in 1..Len(moves) : moves[k][1] = "nkpr"

\* C8: for every input board Solver::solve returns a Solution or the
\* partially solved board; no technique aborts.
C8_SolveReturnsNormally == spc # "panicked"

\* the technique a move of the log names
Logged(move) ==
    CHOOSE t \in {"NakedSingle", "HiddenSingle", "NakedPair"} : technique_names(t) = move

\* the technique applies to b
Applies(t, b) ==
    CASE t = "NakedSingle"  -> NakedSingle_apply_to(b).res = "Ok"
      [] t = "HiddenSingle" -> HiddenSingle_apply_to(b).res = "Ok"
      [] t = "NakedPair"    -> \E result \in NakedPair_apply_to(b) : result.res = "Ok"

\* C17: every step of Solver::solve that logs a move logs one technique
\* that applies to the working board, no technique with fewer points
\* applies to that board, points grows by that technique's points, and the
\* walk starts again at the first technique; points changes in no other step.
C17_CheapestFirst ==
    [][IF moves' # moves
       THEN /\ Len(moves') = Len(moves) + 1
            /\ SubSeq(moves', 1, Len(moves)) = moves
            /\ LET t == Logged(moves'[Len(moves')])
               IN  /\ Applies(t, sboard)
                   /\ \A u \in {"NakedSingle", "HiddenSingle", "NakedPair"} :
                        technique_points(u) < technique_points(t) => ~Applies(u, sboard)
                   /\ points' = points + technique_points(t)
            /\ tech' = 1
       ELSE points' = points /\ (sboard' # sboard => spc = "start")]_vars

\* the log holds a Hidden Single and a Naked Pair, and points is the sum of
\* the points of the moves
C17_Witness ==
    /\ \E k \in 1..Len(moves) : moves[k][1] = "hdns"
    /\ \E k \in 1..Len(moves) : moves[k][1] = "nkpr"
    /\ points = 5 * Cardinality({k \in 1..Len(moves) : moves[k][1] = "nkds"})
                + 10 * Cardinality({k \in 1..Len(moves) : moves[k][1] = "hdns"})
                + 50 * Cardinality({k \in 1..Len(moves) : moves[k][1] = "nkpr"})

\* C23: the board a successful apply_to of Naked Single, Hidden Single or
\* Naked Pair returns has one more cell filled than its argument or at least
\* one Maybe flag fewer, has no Maybe flag that the argument lacks, and
\* holds every Preset and Value cell of the argument as it was.
C23_MoreConstrained ==
    [][moves' # moves
       => /\ \/ Cardinality(FilledCells(sboard')) = Cardinality(FilledCells(sboard)) + 1
             \/ \E j \in AllCells :
                    MaybeSet(cell_value(sboard', j)) # MaybeSet(cell_value(sboard, j))
          /\ \A j \in AllCells :
                MaybeSet(cell_value(sboard', j)) \subseteq MaybeSet(cell_value(sboard, j))
          /\ \A j \in AllCells :
                HasValue(cell_value(sboard, j))
                    => cell_value(sboard', j) = cell_value(sboard, j)]_vars

\* each of the three techniques has been applied
C23_Witness ==
    \A name \in {"nkds", "hdns", "nkpr"} : \E k \in 1..Len(moves) : moves[k][1] = name

\* apply_to of the technique can report "not applicable" on b
Refuses(t, b) == \E result \in apply_to(t, b) : result.res = "Err"

\* the 27 regions
Regions == {RowOf(i) : i \in AllCells} \cup {ColumnOf(i) : i \in AllCells}
            \cup {BoxOf(i) : i \in AllCells}

\* a naked pair of the region with something to eliminate: two cells with the
\* same two Maybe digits, and another cell with Maybe for one of the two
PairToEnforce(b, region, i, j) ==
    /\ i \in region /\ j \in region /\ i # j
    /\ Cardinality(MaybeSet(cell_value(b, i))) = 2
    /\ MaybeSet(cell_value(b, j)) = MaybeSet(cell_value(b, i))
    /\ \E other \in region \ {i, j} :
            MaybeSet(cell_value(b, other)) \cap MaybeSet(cell_value(b, i)) # {}

\* after is b with the pair i, j enforced on the region
Enforced(b, after, region, i, j) ==
    /\ i \in region /\ j \in region /\ i # j
    /\ Cardinality(MaybeSet(cell_value(b, i))) = 2
    /\ MaybeSet(cell_value(b, j)) = MaybeSet(cell_value(b, i))
    /\ \A other \in region \ {i, j} :
            MaybeSet(cell_value(after, other)) \cap MaybeSet(cell_value(b, i)) = {}

\* C24: on the working board of Solver::solve, NakedPair::apply_to does not
\* report "not applicable" when some region holds a naked pair with
\* something to eliminate, and the board of a success is the argument with
\* a pair of some region enforced: no other cell of that region has Maybe
\* for either digit of the pair.
C24_NakedPairComplete ==
    spc = "loop"
    => /\ (\E region \in Regions : \E i, j \in region : PairToEnforce(sboard, region, i, j))
            => ~Refuses("NakedPair", sboard)
       /\ \A result \in NakedPair_apply_to(sboard) :
            result.res = "Ok"
            => \E region \in Regions : \E i, j \in region :
                    Enforced(sboard, result.board, region, i, j)

\* d is a hidden single at the unfilled cell c: Maybe on c, and c is the only
\* cell of its row, or of its column, or of its box, that holds d or has
\* Maybe for d
HiddenAt(b, c, d) ==
    /\ ~HasValue(cell_value(b, c))
    /\ d \in MaybeSet(cell_value(b, c))
    /\ \E region \in {RowOf(c), ColumnOf(c), BoxOf(c)} :
            {k \in region : is_or_maybe(cell_value(b, k), d)} = {c}

\* the cells with a hidden single
HiddenCells(b) == {c \in AllCells : \E d \in Digits : HiddenAt(b, c, d)}

\* C25: on the working board of Solver::solve, HiddenSingle::apply_to
\* reports "not applicable" when no cell has a hidden single, and otherwise
\* returns the board with a hidden single of the first such cell in
\* row-major order placed by set(c, Value, d).
C25_HiddenSingleExact ==
    spc = "loop"
    => LET result == HiddenSingle_apply_to(sboard)
           found  == HiddenCells(sboard)
       IN  IF found = {} THEN result.res = "Err"
           ELSE /\ result.res = "Ok"
                /\ LET c == CHOOSE i \in found : \A j \in found :
                                i[2] * SIZE + i[1] <= j[2] * SIZE + j[1]
                   IN  \E d \in Digits :
                        /\ HiddenAt(sboard, c, d)
                        /\ result.board = set(sboard, c, "Value", d)

\* C22: when the timeout never passes, Solver::solve leaves its loops only
\* on a victory board or on a board on which every technique reports "not
\* applicable".
C22_EndsAtVictoryOrFixpoint ==
    spc \notin {"start", "loop"}
    => /\ spc \in {"exit", "Ok", "Err"}
       /\ \/ is_victory(sboard)
          \/ \A t \in {"NakedSingle", "HiddenSingle", "NakedPair"} : Refuses(t, sboard)

\* what a call of Solver::solve that is over has returned
Returned == <<spc, sboard, points, moves>>

\* C19: a call of Solver::solve that is over and in which the timeout did
\* not pass has returned the only outcome, final board, points and move log
\* that such a call on the same board can return.
C19_SolveDeterministic ==
    LET runs == Solver_solve(given)
    IN  (spc \in {"Ok", "Err"} /\ Returned \in runs) => runs = {Returned}

\* -------------------------------------------------------------------------
\* Claims on the byte string
\* -------------------------------------------------------------------------

\* every filled cell of b holds a digit of 1..9
DigitsInRange(b) ==
    \A i \in AllCells : HasValue(cell_value(b, i)) => cell_value(b, i).val \in Digits

\* c has Preset(d) where b has Preset(d) or Value(d), and Empty elsewhere
PresetsOf(b, c) ==
    \A i \in AllCells :
        cell_value(c, i) = IF HasValue(cell_value(b, i))
                           THEN Preset(cell_value(b, i).val) ELSE Empty

\* C11: loading the byte string emitted for a board whose filled cells hold
\* digits of 1..9 succeeds, and gives Preset(d) at exactly the cells that
\* were Preset(d) or Value(d) and Empty elsewhere, in either build.
C11_RoundTrip ==
    (cpc = "reloaded" /\ DigitsInRange(origin))
    => loaded.res = "Ok" /\ PresetsOf(origin, loaded.board)

\* the string emitted for a board with Preset, Value and Notes cells, the
\* digit 9 among them, was loaded
C11_Witness ==
    /\ cpc = "reloaded" /\ DigitsInRange(origin)
    /\ \E i \in AllCells :
        cell_value(origin, i).kind = "Preset" /\ cell_value(origin, i).val = 9
    /\ \E i \in AllCells : cell_value(origin, i).kind = "Value"
    /\ \E i \in AllCells : cell_value(origin, i).kind = "Notes"

\* the two clues "DRMD" holds: cell (0,0) is 1 and cell (2,3) is 3
DRMDBoard ==
    [r \in Idx |-> [c \in Idx |->
        IF <<c, r>> = <<0, 0>> THEN Preset(1)
        ELSE IF <<c, r>> = <<2, 3>> THEN Preset(3) ELSE Empty]]

\* C12, as stated: loading "DRMD" succeeds and gives a board whose only
\* filled cell is (0,0), holding Preset(0).
C12_DRMDLoads ==
    (cpc = "loaded" /\ bytes = DRMD)
    => /\ loaded.res = "Ok"
       /\ \A i \in AllCells :
            cell_value(loaded.board, i) = IF i = <<0, 0>> THEN Preset(0) ELSE Empty

\* C12, amended: the four bytes of "DRMD" are the two clues (x=1, y=1,
\* val=2) and (x=3, y=4, val=4) and no sentinel, so loading "DRMD" returns
\* the loader error; loading "DRMD@@" succeeds with Preset(1) at (0,0),
\* Preset(3) at (2,3) and every other cell Empty, and that board is emitted
\* as "DRMD@@" and loaded again as the same board.
C12_DRMDTwoClues ==
    /\ (cpc = "loaded" /\ bytes = DRMD) => loaded.res = "Err"
    /\ (cpc = "loaded" /\ bytes = DRMD \o Sentinel) => loaded = OkResult(DRMDBoard)
    /\ (cpc \in {"emitted", "reloaded"} /\ origin = DRMDBoard) => bytes = DRMD \o Sentinel
    /\ (cpc = "reloaded" /\ origin = DRMDBoard) => loaded = OkResult(DRMDBoard)

\* the board loaded from "DRMD@@" was emitted and loaded again
C12_Witness == cpc = "reloaded" /\ origin = DRMDBoard /\ loaded.res = "Ok"

\* the clues of an input of even length, up to its first zero pair
CluesOf(input) ==
    LET Cell(j) == CellBytes_new(input[2 * j - 1], input[2 * j])
        pairs   == Len(input) \div 2
        zeros   == {j \in 1..pairs : Cell(j) = 0}
        last    == IF zeros = {} THEN pairs
                   ELSE (CHOOSE j \in zeros : \A other \in zeros : j <= other) - 1
    IN  [j \in 1..last |->
            <<CellBytes_x(Cell(j)), CellBytes_y(Cell(j)), CellBytes_val(Cell(j))>>]

\* no zero pair closes the input
Unclosed(input) ==
    \A j \in 1..(Len(input) \div 2) : CellBytes_new(input[2 * j - 1], input[2 * j]) # 0

\* an odd number of bytes, no sentinel, or a clue with a field that is 0,
\* a column or row beyond the ninth, or a digit beyond 9
Malformed(input) ==
    \/ Len(input) % 2 # 0
    \/ Unclosed(input)
    \/ \E j \in 1..Len(CluesOf(input)) :
        LET clue == CluesOf(input)[j]
        IN  \/ clue[1] = 0 \/ clue[2] = 0 \/ clue[3] = 0
            \/ clue[1] > SIZE \/ clue[2] > SIZE \/ clue[3] > SIZE + 1

\* C13: for every malformed input the loader returns its error, never a
\* board and never an abort.
C13_MalformedGivesError ==
    (cpc = "loaded" /\ Malformed(bytes)) => loaded.res = "Err"

\* -------------------------------------------------------------------------
\* Claims on the read-only calls
\* -------------------------------------------------------------------------

\* b has a completion
RECURSIVE HasCompletion(_)
HasCompletion(b) ==
    IF Unfilled(b) = {} THEN ValidBoard(b)
    ELSE LET i == CHOOSE j \in Unfilled(b) : TRUE
         IN  \E d \in Absent(b, i) : HasCompletion(SetCell(b, i, Value(d)))

\* C14: when the deadline is not reached, can_be_completed is true exactly
\* when the board is valid, every unfilled cell has a digit absent from its
\* row, column and box, and the board has a completion, however many
\* completions there are.
C14_CanBeCompleted ==
    (answer.name = "can_be_completed" /\ ~answer.clock.hit)
    => (answer.result <=>
            /\ ValidBoard(qboard)
            /\ \A i \in Unfilled(qboard) : Absent(qboard, i) # {}
            /\ HasCompletion(qboard))

\* the answer was true for the board with more than MAX_SOLUTION_SIZE
\* completions
C14_Witness ==
    /\ answer.name = "can_be_completed" /\ ~answer.clock.hit
    /\ qboard = Sparse
    /\ answer.result

\* the filled cells that share their digit with a filled cell they see
Colliding(b) ==
    {i \in AllCells : HasValue(cell_value(b, i)) /\ \E j \in AllCells :
        /\ Sees(i, j) /\ HasValue(cell_value(b, j))
        /\ cell_value(b, j).val = cell_value(b, i).val}

\* every region holds every digit in exactly one filled cell
CompleteBoard(b) ==
    \A region \in Regions : \A d \in Digits :
        Cardinality({i \in region :
            HasValue(cell_value(b, i)) /\ cell_value(b, i).val = d}) = 1

\* C15: is_valid holds iff no row, column or box has a digit in two filled
\* cells; invalid_cells is the set of the cells that share their digit with
\* another filled cell of one of their regions; is_complete holds iff each
\* of the 27 regions has every digit of 1..9 exactly once; is_victory holds
\* iff the board is valid and complete.
C15_Validator ==
    /\ answer.name = "is_valid" => (answer.result <=> ValidBoard(qboard))
    /\ answer.name = "invalid_cells" => answer.result = Colliding(qboard)
    /\ answer.name = "is_complete" => (answer.result <=> CompleteBoard(qboard))
    /\ answer.name = "is_victory" =>
            (answer.result <=> (ValidBoard(qboard) /\ CompleteBoard(qboard)))

\* invalid_cells was asked on the board with a digit three times in a row
C15_Witness ==
    /\ answer.name = "invalid_cells"
    /\ qboard = Crowd
    /\ {<<0, 0>>, <<1, 0>>, <<2, 0>>} \subseteq answer.result

\* C16: house(bc, br) and house_mut(bc, br) with bc and br in 0..2 return
\* exactly the nine cells (c, r) with c / 3 = bc and r / 3 = br, each with
\* its own index, and return none for an argument outside 0..2.
C16_BoxOfColumnRow ==
    answer.name \in {"house", "house_mut"}
    => LET bc == answer.arg[1]
           br == answer.arg[2]
       IN  IF bc \in 0..2 /\ br \in 0..2
           THEN /\ answer.result # None
                /\ {answer.result[1][k][1] : k \in 1..Len(answer.result[1])}
                        = {i \in AllCells : i[1] \div 3 = bc /\ i[2] \div 3 = br}
                /\ \A k \in 1..Len(answer.result[1]) :
                        answer.result[1][k][2] = cell_value(qboard, answer.result[1][k][1])
           ELSE answer.result = None

\* -------------------------------------------------------------------------
\* Claims on the generator
\* -------------------------------------------------------------------------

\* C9: the working board of into_game has exactly one completion after
\* every accepted removal of Phase C and when it is returned.
C9_OneCompletion == Cardinality(Completions(gboard)) = 1

\* C10: throughout Phase C the number of filled cells is 81 minus the number
\* of accepted removals; the returned board has only Preset and Empty cells,
\* exactly num_starting_cells Preset cells when the loop ended by its count,
\* and more than that when the pool ran out first.
C10_ClueCount ==
    /\ gpc = "carving" =>
            Cardinality(FilledCells(gboard)) = SIZE * SIZE - cells_removed
    /\ gpc = "returned" =>
        /\ \A i \in AllCells : cell_value(gboard, i).kind \in {"Preset", "Empty"}
        /\ Cardinality(PresetCells(gboard)) = SIZE * SIZE - cells_removed
        /\ IF cells_removed = SIZE * SIZE - num_starting_cells
           THEN Cardinality(PresetCells(gboard)) = num_starting_cells
           ELSE /\ available_cells = <<>>
                /\ Cardinality(PresetCells(gboard)) > num_starting_cells

\* a board returned with num_starting_cells clues after several removals,
\* a cell whose removal had been refused being back at the end of the pool
C10_Witness ==
    /\ gpc = "returned"
    /\ cells_removed >= 2
    /\ Cardinality(PresetCells(gboard)) = num_starting_cells
    /\ available_cells # <<>>
    /\ available_cells[Len(available_cells)] \in CarveCells

\* the members of a sequence, and a sequence without a member twice
Members(seq) == {seq[k] : k \in 1..Len(seq)}

EachOnce(seq) == \A k, l \in 1..Len(seq) : seq[k] = seq[l] => k = l

\* C26: no run of the filling returns SelectedCellAlreadySet or
\* InvalidBoardCreated or returns Ok early with an unfinished board, every
\* cell of the pool being a Notes cell with some Maybe digit at each turn;
\* CorruptedBoardIntractable is returned only on the board with no cell
\* filled, after a deadline was met, a board for which can_be_completed is
\* true when its deadline is not met.
C26_NoBugOutcome ==
    /\ gpc \notin {"SelectedCellAlreadySet", "InvalidBoardCreated", "Ok"}
    /\ (gpc = "filling" /\ is_valid(gboard) /\ ~is_complete(gboard)) =>
            \A i \in Members(available_cells) : MaybeSet(cell_value(gboard, i)) # {}
    /\ gpc = "CorruptedBoardIntractable" =>
            /\ Unfilled(gboard) = AllCells
            /\ missed > 0
            /\ can_be_completed(gboard, StartClock(-1)).result

\* CorruptedBoardIntractable was returned, every move taken back
C26_Witness ==
    /\ gpc = "CorruptedBoardIntractable"
    /\ move_stack = <<>>
    /\ Len(available_cells) = SIZE * SIZE

\* what C27 says of the start of a turn
LoopHead(board, pool, stack) ==
    /\ EachOnce(pool)
    /\ Members(pool) = Unfilled(board)
    /\ EachOnce(stack)
    /\ {made[1] : made \in Members(stack)} = FilledCells(board)
    /\ \A made \in Members(stack) : cell_value(board, made[1]) = Value(made[2])
    /\ ValidBoard(board)
    /\ \A i \in Unfilled(board) : MaybeSet(cell_value(board, i)) = Absent(board, i)

\* C27: at the start of every turn of the filling loop the pool holds,
\* without duplicates, exactly the cells without a value, the stack holds
\* exactly the filled cells with their digits, the board is valid and the
\* Maybe set of every unfilled cell is the set of the digits absent from
\* its row, column and box; the stack changes only by a move on a cell it
\* did not hold put on top, or by its top taken off.
C27_LoopHead ==
    [][/\ gpc = "filling" => LoopHead(gboard, available_cells, move_stack)
       /\ gpc' = "filling" => LoopHead(gboard', available_cells', move_stack')
       /\ \/ move_stack' = move_stack
          \/ /\ Len(move_stack') = Len(move_stack) + 1
             /\ SubSeq(move_stack', 1, Len(move_stack)) = move_stack
             /\ EachOnce([k \in 1..Len(move_stack') |-> move_stack'[k][1]])
          \/ /\ move_stack # <<>>
             /\ move_stack' = SubSeq(move_stack, 1, Len(move_stack) - 1)]_vars

\* a turn starts after a move was taken back: the pool is out of the order
\* of AllIndices
C27_Witness ==
    /\ gpc = "filling"
    /\ available_cells # <<>>
    /\ available_cells # InOrder(Members(available_cells))

\* the line a swap of lines one and two puts at the place of line
Exchanged(line, one, two) == IF line = one THEN two ELSE IF line = two THEN one ELSE line

\* C28: every swap of the second phase exchanges two distinct rows, or two
\* distinct columns, of one band of three: the cell at every place is the
\* cell that was in the other line of the pair, every cell outside the two
\* lines stays, and the full valid board is still full and valid.
C28_BandSwap ==
    [][(gpc = "swapping" /\ swaps_left' # swaps_left) =>
        /\ \E band \in {0, 3, 6} : \E i, j \in 0..2 :
            /\ i # j
            /\ \/ \A c, r \in Idx :
                    cell_value(gboard', <<c, r>>)
                        = cell_value(gboard, <<Exchanged(c, band + i, band + j), r>>)
               \/ \A c, r \in Idx :
                    cell_value(gboard', <<c, r>>)
                        = cell_value(gboard, <<c, Exchanged(r, band + i, band + j)>>)
        /\ ValidBoard(gboard) /\ CompleteBoard(gboard)
        /\ ValidBoard(gboard') /\ CompleteBoard(gboard')]_vars

\* the swaps are over, a swap of rows and a swap of columns having brought
\* the digit of <<1, 1>> to <<0, 0>>
C28_Witness ==
    /\ gpc = "carving"
    /\ swaps_left = 0
    /\ cell_value(gboard, <<0, 0>>) = Value(GridAt(<<1, 1>>))

\* C29: while the cells are removed the pool and the buffer hold, each
\* cell once, exactly the filled cells, and at most 81 - N removals are
\* made; every turn takes one cell out of the pool and either refuses it,
\* which puts it at the end of the buffer and shortens the pool, or accepts
\* it, which empties the cell, counts one more removal and gives the buffer
\* back to the pool; the loop is left only with the count reached or the
\* pool empty. The count cannot pass 81 - N and the pool cannot shrink
\* below nothing, so the loop ends.
C29_CarveEnds ==
    [][gpc = "carving" =>
        /\ EachOnce(available_cells \o buffer)
        /\ Members(available_cells) \cup Members(buffer) = FilledCells(gboard)
        /\ cells_removed <= SIZE * SIZE - num_starting_cells
        /\ \/ /\ gpc' = "returned"
              /\ \/ cells_removed = SIZE * SIZE - num_starting_cells
                 \/ available_cells = <<>>
           \/ /\ gpc' = "carving"
              /\ cells_removed < SIZE * SIZE - num_starting_cells
              /\ \E index \in Members(available_cells) :
                    \/ /\ cells_removed' = cells_removed
                       /\ Len(available_cells') = Len(available_cells) - 1
                       /\ Members(available_cells') = Members(available_cells) \ {index}
                       /\ buffer' = Append(buffer, index)
                       /\ gboard' = gboard
                    \/ /\ cells_removed' = cells_removed + 1
                       /\ Members(available_cells')
                            = (Members(available_cells) \ {index}) \cup Members(buffer)
                       /\ buffer' = <<>>
                       /\ FilledCells(gboard') = FilledCells(gboard) \ {index}]_vars

\* a removal was accepted after another had been refused: the refused cell
\* is back in the pool, behind the others
C29_Witness ==
    /\ gpc = "carving"
    /\ cells_removed >= 1
    /\ buffer = <<>>
    /\ available_cells # InOrder(Members(available_cells))

\* -------------------------------------------------------------------------
\* Claims on GameBoard::solve
\* -------------------------------------------------------------------------

\* C30: solve returns false exactly when the board has no completion, and
\* then the board is as it was before the call; when it returns true the
\* board is a victory in which every cell that was filled keeps its cell.
C30_SolveRestores ==
    op.name = "solve" =>
        /\ op.ret <=> HasCompletion(prev)
        /\ ~op.ret => cells = prev
        /\ op.ret =>
            /\ is_victory(cells)
            /\ \A i \in FilledCells(prev) : cell_value(cells, i) = cell_value(prev, i)

====
